---------------------------- MODULE Spec2Model ----------------------------
(***************************************************************************)
(* A model of the character animation and autonomous-movement engine of    *)
(* Open-LLM-VTuber-Web: the Live2D parameter resolver and motion priority  *)
(* of CubismModel, the model ownership of CubismRenderer, the              *)
(* useCharacterMovement scheduler hook and the useCharacterTransform drag  *)
(* controller, both writing the zustand store's character position.        *)
(*                                                                         *)
(* Numbers: the code's floating-point values are kept as integers.         *)
(* Positions written by the scheduler are whole pixels; speed and          *)
(* activeness are kept in tenths (1.0 is 10); intensity in hundredths;     *)
(* direction components in hundredths; durations in milliseconds.          *)
(***************************************************************************)
EXTENDS Integers, Sequences, FiniteSets, TLC

VARIABLES
    \* ---- CubismModel: parameter resolver (index.ts) ----
    modelParams,        \* declared parameter names of the loaded moc, in order
    paramIds,           \* _idParamAngleX ... _idParamEyeBallY
    idsResolved,        \* setupParameterIds has run for this model
    \* ---- CubismModel: motions (index.ts) ----
    motions,            \* _motions: names of the loaded motion clips
    motionLoads,        \* startMotion calls awaiting loadMotionFile
    activeMotion,       \* the clip the motion manager is playing ("none")
    currentPriority,    \* the motion manager's current priority
    lastStart,          \* the last "Start motion" (index.ts:620): request, before, after
    \* ---- CubismRenderer (CubismRenderer.ts) ----
    rendererGl,         \* _gl is set
    rendererModel,      \* _model: 0 for null, or the instance
    modelState,         \* every CubismModel instance: none, loading, ready, failed, released
    isRunning,          \* _isRunning
    rafId,              \* _rafId: "null", a "pending" animation-frame callback, or a "stale" id
    drewDisposed,       \* update/draw has run on a disposed renderer
    res,                \* every CubismModel instance: what it holds and what it has freed
    calls,              \* release() calls per instance and dispose() calls so far
    scale,              \* _scale, in thousandths
    minScale,           \* _minScale, in thousandths
    maxScale,           \* _maxScale, in thousandths
    zoomEnabled,        \* _zoomEnabled
    wheelHandler,       \* _wheelHandler is attached to the canvas
    \* ---- CubismModel: gaze and tilt (index.ts) ----
    gaze,               \* _lookAtX/Y, _movementTiltX/Y, _movementIntensity, _isMoving
    currentTilt,        \* _currentTiltX/Y
    gazeCall,           \* the last setLookAt / setMovementTilt call with its arguments
    frames,             \* applyLookAt calls so far
    \* ---- moveToNextPosition: the move being computed ----
    travel,             \* its deltaX, deltaY (px) and the speed setting (tenths)
    \* ---- useAudio (shared/config.ts) ----
    clips,              \* every Audio element created: its state, the lipSyncEnabled its
                        \* playAudio closure saw, and the late events it can still fire
    audioRef,           \* audioRef.current: 0 for null, or the element
    animationFrameRef,  \* "null", a "pending" frame callback, or a "stale" id
    queueRef,           \* queueRef.current: the volumes of the tasks waiting
    isPlayingRef,
    currentVolumesRef,
    lipSyncEnabled,     \* settings.character.lipSyncEnabled
    lipSyncValue,       \* character.lipSyncValue, in tenths
    lipCall,            \* the last envelope lookup of updateLipSync
    audioMounted,       \* the component using useAudio is mounted
    \* ---- store (ui, settings and character slices) ----
    uiMode,             \* ui.mode
    movementMode,       \* settings.character.movementMode
    movementSpeed,      \* settings.character.movementSpeed, in tenths
    movementActiveness, \* settings.character.movementActiveness, in tenths
    position,           \* character.model.position
    movement,           \* character.movement (MovementState)
    \* ---- environment ----
    isElectron,         \* shared/utils isElectron
    win,                \* window.innerWidth / innerHeight
    mounted,            \* the React tree (App and its hooks) is mounted
    \* ---- useCharacterMovement (mounted once, by App) ----
    bounds,             \* the bounds state
    settingsRef,        \* settingsRef.current
    isPausedRef,
    isRestingRef,
    timeoutRef,         \* "null", a pending "move" or "rest" timer, or a "stale" id
    movementEndTimerRef,\* "null", "pending" or a "stale" id
    armed,              \* the pending timeoutRef timer: the callback that armed it and
                        \* settingsRef.current at that moment
    modeCleanup,        \* the mode effect's last run returned its cleanup
    dirty,              \* what changed since React last committed the App tree
    moveInFlight,       \* a move has started and nothing but its own commit and a
                        \* slider change has happened since: less than the reaction
                        \* delay (500ms) of a transition of 1500ms or more has passed
    \* ---- Live2DCanvas / useCharacterTransform ----
    hasModel,           \* the canvas' renderer holds a loaded model
    viewPos,            \* the centre position of that model's matrix
    isDragging,
    dragStateRef,
    currentPosRef,
    posWriter,          \* who wrote character.model.position last
    \* ---- useWebSocket (useWebSocket.ts) ----
    sockets,            \* the WebSocket objects created: their readyState
    wsRef,              \* wsRef.current: a socket, or NoSocket
    reconnectAttemptsRef,
    reconnectTimeoutRef,\* the id of the last reconnect timer armed, or NoTimer
    liveTimers,         \* the reconnect timers that are pending
    timerCount,         \* the reconnect timers armed so far
    wsDisconnected,     \* disconnect() was called and connect() not since
    wsMounted

resolverVars == <<modelParams, paramIds, idsResolved>>
motionVars   == <<motions, motionLoads, activeMotion, currentPriority, lastStart>>
storeVars    == <<uiMode, movementMode, movementSpeed, movementActiveness, position, movement>>
envVars      == <<isElectron, win, mounted>>
hookVars     == <<bounds, settingsRef, isPausedRef, isRestingRef, timeoutRef,
                  movementEndTimerRef, armed, modeCleanup, dirty>>
canvasVars   == <<hasModel, viewPos, isDragging, dragStateRef, currentPosRef, posWriter>>
moveVars     == <<storeVars, envVars, hookVars, moveInFlight, canvasVars>>
releaseVars  == <<res, calls>>
rendererVars == <<rendererGl, rendererModel, modelState, isRunning, rafId, drewDisposed,
                  releaseVars>>
cubismVars   == <<resolverVars, motionVars, rendererVars>>
scaleVars    == <<scale, minScale, maxScale, zoomEnabled, wheelHandler>>
gazeVars     == <<gaze, currentTilt, gazeCall, frames>>
travelVars   == <<travel>>
audioVars    == <<clips, audioRef, animationFrameRef, queueRef, isPlayingRef,
                  currentVolumesRef, lipSyncEnabled, lipSyncValue, lipCall, audioMounted>>
wsVars       == <<sockets, wsRef, reconnectAttemptsRef, reconnectTimeoutRef, liveTimers,
                  timerCount, wsDisconnected, wsMounted>>
tailVars     == <<travelVars, audioVars, wsVars>>
extVars      == <<scaleVars, gazeVars, tailVars>>
vars == <<cubismVars, moveVars, extVars>>

(***************************************************************************)
(* Helpers                                                                 *)
(***************************************************************************)
Min(a, b) == IF a < b THEN a ELSE b
Max(a, b) == IF a > b THEN a ELSE b
Abs(a) == IF a < 0 THEN -a ELSE a

(***************************************************************************)
(* Parameter resolver                                                      *)
(***************************************************************************)
\* A name is a sequence of one-character strings.
UpperChars == <<"A","B","C","D","E","F","G","H","I","J","K","L","M",
                "N","O","P","Q","R","S","T","U","V","W","X","Y","Z">>
LowerChars == <<"a","b","c","d","e","f","g","h","i","j","k","l","m",
                "n","o","p","q","r","s","t","u","v","w","x","y","z">>

\* String.prototype.toLowerCase on one character
ToLowerChar(c) ==
    IF \E i \in 1..Len(UpperChars) : UpperChars[i] = c
    THEN LowerChars[CHOOSE i \in 1..Len(UpperChars) : UpperChars[i] = c]
    ELSE c

IsSeparator(c) == c \in {"_", "-"}

\* param.name.toLowerCase().replace(/[_-]/g, '')
NormalizeName(name) ==
    SelectSeq([i \in 1..Len(name) |-> ToLowerChar(name[i])],
              LAMBDA c : ~IsSeparator(c))

\* kw.toLowerCase()
LowerKeyword(kw) == [i \in 1..Len(kw) |-> ToLowerChar(kw[i])]

\* String.prototype.includes
Includes(s, kw) ==
    \E i \in 0..(Len(s) - Len(kw)) : SubSeq(s, i + 1, i + Len(kw)) = kw

\* one iteration of the loop of findParamByKeywords: does this name pass?
ParamMatches(name, mustInclude, shouldInclude, mustExclude) ==
    LET nameLower == NormalizeName(name) IN
    /\ \A kw \in mustInclude : Includes(nameLower, LowerKeyword(kw))
    /\ \E kw \in shouldInclude : Includes(nameLower, LowerKeyword(kw))
    /\ ~(\E kw \in mustExclude : Includes(nameLower, LowerKeyword(kw)))

\* getAllParameterNames: {name, index} for each parameter, index from 0
getAllParameterNames(names) ==
    [i \in 1..Len(names) |-> [name |-> names[i], index |-> i - 1]]

Unresolved == -1

findParamByKeywords(params, mustInclude, shouldInclude, mustExclude) ==
    LET hits == {i \in 1..Len(params) :
                    ParamMatches(params[i].name, mustInclude, shouldInclude, mustExclude)}
    IN IF hits = {} THEN Unresolved
       ELSE params[CHOOSE i \in hits : \A j \in hits : i <= j].index

KwAngle == <<"a","n","g","l","e">>
KwBody  == <<"b","o","d","y">>
KwEye   == <<"e","y","e">>
KwBall  == <<"b","a","l","l">>
KwX     == <<"x">>
KwY     == <<"y">>
KwZ     == <<"z">>

\* the six assignments of setupParameterIds
ResolvedIds(names) ==
    LET allParams == getAllParameterNames(names) IN
    [ angleX     |-> findParamByKeywords(allParams, {KwAngle}, {KwX}, {KwY, KwZ}),
      angleY     |-> findParamByKeywords(allParams, {KwAngle}, {KwY}, {KwX, KwZ}),
      angleZ     |-> findParamByKeywords(allParams, {KwAngle}, {KwZ}, {KwX, KwY}),
      bodyAngleX |-> findParamByKeywords(allParams, {KwBody, KwAngle}, {KwX}, {}),
      eyeBallX   |-> findParamByKeywords(allParams, {KwEye, KwBall}, {KwX}, {KwY}),
      eyeBallY   |-> findParamByKeywords(allParams, {KwEye, KwBall}, {KwY}, {KwX}) ]

\* the fields as the constructor leaves them
InitialIds ==
    [ angleX |-> Unresolved, angleY |-> Unresolved, angleZ |-> Unresolved,
      bodyAngleX |-> Unresolved, eyeBallX |-> Unresolved, eyeBallY |-> Unresolved ]

ParamAngleX     == <<"P","a","r","a","m","A","n","g","l","e","X">>
ParamAngleY     == <<"P","a","r","a","m","A","n","g","l","e","Y">>
ParamAngleZ     == <<"P","a","r","a","m","A","n","g","l","e","Z">>
ParamBodyAngleX == <<"P","a","r","a","m","B","o","d","y","A","n","g","l","e","X">>
ParamEyeBallX   == <<"P","a","r","a","m","E","y","e","B","a","l","l","X">>
ParamEyeBallY   == <<"P","a","r","a","m","E","y","e","B","a","l","l","Y">>
ParamMouthOpenY == <<"P","a","r","a","m","M","o","u","t","h","O","p","e","n","Y">>
PARAM_ANGLE_X   == <<"P","A","R","A","M","_","A","N","G","L","E","_","X">>

ParamNames == { ParamAngleX, ParamAngleY, ParamAngleZ, ParamBodyAngleX,
                ParamEyeBallX, ParamEyeBallY, ParamMouthOpenY, PARAM_ANGLE_X }

\* the longest parameter list a modelled moc declares
MaxParams == 4

\* parameter ids of a moc are distinct
ParamLists ==
    UNION { { s \in [1..n -> ParamNames] : \A i, j \in 1..n : i # j => s[i] # s[j] }
            : n \in 0..MaxParams }

ResolverIdle ==
    /\ modelParams = <<>>
    /\ paramIds = InitialIds
    /\ idsResolved = FALSE

\* CubismModel.setupParameterIds, the last step of loadFromUrl
setupParameterIds ==
    /\ ~idsResolved
    /\ paramIds' = ResolvedIds(modelParams)
    /\ idsResolved' = TRUE
    /\ UNCHANGED modelParams
    /\ UNCHANGED <<motionVars, rendererVars, moveVars, extVars>>

(***************************************************************************)
(* Motions and their priority                                              *)
(***************************************************************************)
\* MotionPriority
PriorityNone   == 0
PriorityIdle   == 1
PriorityNormal == 2
PriorityForce  == 3
MotionPriority == {PriorityNone, PriorityIdle, PriorityNormal, PriorityForce}

NoMotion == "none"
\* clips the model setting names a file for, and one it has no file for
MotionFiles == {"Idle_0", "Tap_0", "Tap_1"}
MotionNames == MotionFiles \cup {"Flick_0"}
\* preloadMotionGroup('Idle') has cached the Idle group
PreloadedMotions == {"Idle_0"}

\* startMotion calls that may await loadMotionFile at once
MaxMotionLoads == 2

NoStart == [name |-> NoMotion]

\* CubismMotionManager.startMotionPriority (framework, not in src): a start
\* below the priority of the playing motion is a no-op, any other start
\* replaces the playing motion and takes its priority.
startMotionPriority(playing, motion, priority) ==
    IF playing.active # NoMotion /\ priority < playing.priority
    THEN playing
    ELSE [active |-> motion, priority |-> priority]

\* the priority startMotion hands to the motion manager
\* startMotion passing Force whatever it was asked for
PassedPriorityForce(priority) == PriorityForce

PassedPriority(priority) == priority

\* index.ts:618-621: if (motion) startMotionPriority(motion, false, priority)
StartLoaded(name, priority) ==
    LET before == [active |-> activeMotion, priority |-> currentPriority]
        after  == startMotionPriority(before, name, PassedPriority(priority))
    IN /\ activeMotion' = after.active
       /\ currentPriority' = after.priority
       /\ lastStart' = [name |-> name, priority |-> priority,
                        before |-> before, after |-> after]

\* startMotion on a cached clip, on a clip to be loaded, on a clip without file
startMotion ==
    /\ \E name \in MotionNames, priority \in MotionPriority \ {PriorityNone} :
            \/ /\ name \in motions
               /\ StartLoaded(name, priority)
               /\ UNCHANGED <<motions, motionLoads>>
            \/ /\ name \notin motions
               /\ name \in MotionFiles
               /\ Cardinality(motionLoads) < MaxMotionLoads
               /\ motionLoads' = motionLoads \cup {[name |-> name, priority |-> priority]}
               /\ UNCHANGED <<motions, activeMotion, currentPriority, lastStart>>
            \/ /\ name \notin motions
               /\ name \notin MotionFiles
               /\ UNCHANGED motionVars
    /\ UNCHANGED <<resolverVars, rendererVars, moveVars, extVars>>

\* loadMotionFile resolves: the clip is cached and startMotion goes on
loadMotionFileDone ==
    /\ \E l \in motionLoads :
            /\ motionLoads' = motionLoads \ {l}
            /\ motions' = motions \cup {l.name}
            /\ StartLoaded(l.name, l.priority)
    /\ UNCHANGED <<resolverVars, rendererVars, moveVars, extVars>>

\* the fetch of loadMotionFile rejects: startMotion rejects, nothing starts
loadMotionFileFailed ==
    /\ \E l \in motionLoads :
            /\ motionLoads' = motionLoads \ {l}
            /\ UNCHANGED <<motions, activeMotion, currentPriority, lastStart>>
    /\ UNCHANGED <<resolverVars, rendererVars, moveVars, extVars>>

\* CubismMotionManager.updateMotion (framework, not in src) when the playing
\* clip has finished: nothing plays and the priority is back to None
motionFinished ==
    /\ activeMotion # NoMotion
    /\ activeMotion' = NoMotion
    /\ currentPriority' = PriorityNone
    /\ UNCHANGED <<motions, motionLoads, lastStart>>
    /\ UNCHANGED <<resolverVars, rendererVars, moveVars, extVars>>

MotionIdle ==
    /\ motions = PreloadedMotions
    /\ motionLoads = {}
    /\ activeMotion = NoMotion
    /\ currentPriority = PriorityNone
    /\ lastStart = NoStart

(***************************************************************************)
(* CubismRenderer: the model it owns                                       *)
(***************************************************************************)
MaxModels == 3
ModelIds  == 1..MaxModels
NoModel   == 0

\* what a CubismModel creates and has to free
ExpressionNames == {"smile", "angry"}
TextureIds      == {"texture_00", "texture_01"}
Resources       == MotionFiles \cup ExpressionNames \cup TextureIds \cup {"modelSetting"}

\* a constructed CubismModel: empty maps, a texture manager without context
NoRes ==
    [ motions      |-> {},
      expressions  |-> {},
      textures     |-> {},
      textureGl    |-> FALSE,
      modelSetting |-> FALSE,
      freed        |-> [r \in Resources |-> 0] ]

\* a CubismModel after setGl and loadFromUrl
LoadedRes ==
    [NoRes EXCEPT !.motions = PreloadedMotions, !.expressions = ExpressionNames,
                  !.textures = TextureIds, !.textureGl = TRUE, !.modelSetting = TRUE]

\* what loadFromUrl has created when one of its awaits rejects: nothing (the
\* manifest), the model setting (the moc file), then the textures one after
\* the other, the expressions, and the preloaded motions (physics, pose,
\* user data, a motion file)
PartialLoads ==
    LET started == [NoRes EXCEPT !.textureGl = TRUE]
        setting == [started EXCEPT !.modelSetting = TRUE]
    IN { started, setting,
         [setting EXCEPT !.textures = {"texture_00"}],
         [setting EXCEPT !.textures = TextureIds],
         [setting EXCEPT !.textures = TextureIds, !.expressions = {"smile"}],
         [setting EXCEPT !.textures = TextureIds, !.expressions = ExpressionNames],
         [setting EXCEPT !.textures = TextureIds, !.expressions = ExpressionNames,
                         !.motions = PreloadedMotions] }

\* the release() and dispose() calls followed
MaxCalls == 3
NoCalls == [release |-> [id \in ModelIds |-> 0], dispose |-> 0]

\* ACubismMotion.delete, gl.deleteTexture, CubismModelSettingJson.release
Free(r, freedNow) ==
    [r EXCEPT !.freed = [x \in Resources |-> IF x \in freedNow THEN @[x] + 1 ELSE @[x]]]

\* the motions and expressions loops of release(): every entry is deleted
\* and the map is emptied
DeleteMotionsOnly(r) == Free(r, r.motions \cup r.expressions)
releaseMotions(r) ==
    [Free(r, r.motions \cup r.expressions) EXCEPT !.motions = {}, !.expressions = {}]

\* CubismTextureManager.releaseTextures
releaseTextures(r) ==
    IF ~r.textureGl THEN r ELSE [Free(r, r.textures) EXCEPT !.textures = {}]

\* CubismTextureManager.dispose
disposeTextures(r) == [releaseTextures(r) EXCEPT !.textureGl = FALSE]

\* the model setting is released and forgotten, when there is one
releaseModelSetting(r) ==
    IF r.modelSetting THEN [Free(r, {"modelSetting"}) EXCEPT !.modelSetting = FALSE] ELSE r

\* CubismModel.release, up to the base class' release
releaseRes(r) == releaseModelSetting(disposeTextures(releaseMotions(r)))

RendererIdle ==
    /\ rendererGl = TRUE
    /\ rendererModel = NoModel
    /\ modelState = [id \in ModelIds |-> "none"]
    /\ isRunning = FALSE
    /\ rafId = "null"
    /\ drewDisposed = FALSE
    /\ res = [id \in ModelIds |-> NoRes]
    /\ calls = NoCalls

\* the render loop's fields
Loop == [running |-> isRunning, raf |-> rafId]

\* CubismRenderer.startRenderLoop
startRenderLoop(l) ==
    IF l.running THEN l ELSE [running |-> TRUE, raf |-> "pending"]

\* CubismRenderer.stopRenderLoop: cancelAnimationFrame of a set id
stopRenderLoop(l) ==
    IF ~l.running THEN l ELSE [running |-> FALSE, raf |-> "null"]

\* _model.release(); _model = null, when there is a model
ReleaseCurrent(states) ==
    IF rendererModel # NoModel
    THEN [states EXCEPT ![rendererModel] = "released"]
    ELSE states

\* the same, for what the instances hold
ReleaseCurrentRes(all) ==
    IF rendererModel # NoModel
    THEN [all EXCEPT ![rendererModel] = releaseRes(@)]
    ELSE all

ReleaseCurrentCalls(c) ==
    IF rendererModel # NoModel
    THEN [c EXCEPT !.release[rendererModel] = @ + 1]
    ELSE c

\* CubismModel.release called on an instance
release ==
    /\ \E id \in ModelIds :
        /\ modelState[id] \in {"ready", "released"}
        /\ calls.release[id] < MaxCalls
        /\ res' = [res EXCEPT ![id] = releaseRes(@)]
        /\ modelState' = [modelState EXCEPT ![id] = "released"]
        /\ calls' = [calls EXCEPT !.release[id] = @ + 1]
    /\ UNCHANGED <<rendererGl, rendererModel, isRunning, rafId, drewDisposed>>
    /\ UNCHANGED <<resolverVars, motionVars, moveVars, extVars>>

\* CubismRenderer.loadModel up to its await: without a context it throws,
\* otherwise the current model is released and a new instance starts loading
loadModel ==
    /\ \E id \in ModelIds :
        /\ modelState[id] = "none"
        /\ \A other \in ModelIds : other < id => modelState[other] # "none"
        /\ IF ~rendererGl
           THEN UNCHANGED rendererVars
           ELSE /\ modelState' = [ReleaseCurrent(modelState) EXCEPT ![id] = "loading"]
                /\ rendererModel' = NoModel
                /\ res' = ReleaseCurrentRes(res)
                /\ calls' = ReleaseCurrentCalls(calls)
                /\ UNCHANGED <<rendererGl, isRunning, rafId, drewDisposed>>
    /\ UNCHANGED <<resolverVars, motionVars, moveVars, extVars>>

\* Live2DCanvas.loadModel after its await: rendererRef.current is null once
\* the canvas has disposed the renderer, and the call on it throws
canvasStartsLoop(l) ==
    IF rendererGl THEN startRenderLoop(l) ELSE l

\* loadFromUrl resolves: CubismRenderer.loadModel goes on after its await,
\* and then its caller Live2DCanvas.loadModel after its own
loadFromUrlDone ==
    /\ \E id \in ModelIds :
        /\ modelState[id] = "loading"
        /\ modelState' = [modelState EXCEPT ![id] = "ready"]
        /\ rendererModel' = id
        /\ res' = [res EXCEPT ![id] = LoadedRes]
    /\ isRunning' = canvasStartsLoop(Loop).running
    /\ rafId' = canvasStartsLoop(Loop).raf
    /\ UNCHANGED <<rendererGl, drewDisposed, calls>>
    /\ UNCHANGED <<resolverVars, motionVars, moveVars, extVars>>

\* what an instance whose load has failed is left with
KeepPartial(partial) == partial

\* loadFromUrl rejects at one of its awaits: loadModel throws out of its own
\* await, and the instance, which nothing refers to any more, is not released
loadFromUrlFailed ==
    /\ \E id \in ModelIds, partial \in PartialLoads :
        /\ modelState[id] = "loading"
        /\ modelState' = [modelState EXCEPT ![id] = "failed"]
        /\ res' = [res EXCEPT ![id] = KeepPartial(partial)]
    /\ UNCHANGED <<rendererGl, rendererModel, isRunning, rafId, drewDisposed, calls>>
    /\ UNCHANGED <<resolverVars, motionVars, moveVars, extVars>>

\* the animation-frame callback of startRenderLoop: update and draw only
\* while the loop runs, then the next frame is requested
render ==
    /\ rafId = "pending"
    /\ IF ~isRunning
       THEN /\ rafId' = "stale"
            /\ UNCHANGED drewDisposed
       ELSE /\ rafId' = "pending"
            /\ drewDisposed' = (drewDisposed \/ ~rendererGl)
    /\ UNCHANGED <<rendererGl, rendererModel, modelState, isRunning, releaseVars>>
    /\ UNCHANGED <<resolverVars, motionVars, moveVars, extVars>>

\* CubismRenderer.dispose
dispose ==
    /\ calls.dispose < MaxCalls
    /\ isRunning' = stopRenderLoop(Loop).running
    /\ rafId' = stopRenderLoop(Loop).raf
    /\ modelState' = ReleaseCurrent(modelState)
    /\ res' = ReleaseCurrentRes(res)
    /\ calls' = [ReleaseCurrentCalls(calls) EXCEPT !.dispose = @ + 1]
    /\ rendererModel' = NoModel
    /\ rendererGl' = FALSE
    /\ wheelHandler' = FALSE
    /\ UNCHANGED <<scale, minScale, maxScale, zoomEnabled, gazeVars, tailVars>>
    /\ UNCHANGED <<drewDisposed, resolverVars, motionVars, moveVars>>

(***************************************************************************)
(* CubismRenderer: zoom.  Scales are kept in thousandths (1.0 is 1000);    *)
(* a product is rounded down to the next thousandth.                       *)
(***************************************************************************)
ScaleUnit == 1000
DefaultScale == 1000
DefaultMinScale == 500
DefaultMaxScale == 3000

ScaleIdle ==
    /\ scale = DefaultScale
    /\ minScale = DefaultMinScale
    /\ maxScale = DefaultMaxScale
    /\ zoomEnabled = FALSE
    /\ wheelHandler = FALSE

\* the scales callers pass to setScale: the store's, below, inside, above
ScaleInputs == {0, 300, 1000, 2500, 5000}
\* the ends of the ranges callers pass to setScaleRange
RangeEnds == {100, 500, 2000, 3000}
ScaleRanges == {r \in [min : RangeEnds, max : RangeEnds] : r.min <= r.max}
\* WheelEvent.deltaY: a notch up, a notch down, and a fling
WheelDeltas == {-100, 100, 3000}

\* a setter that stores what it is given
StoreUnclamped(min, max, s) == s

\* Math.max(min, Math.min(max, s))
ClampScale(min, max, s) == Max(min, Min(max, s))

\* CubismRenderer.setScale
setScale ==
    /\ \E s \in ScaleInputs : scale' = ClampScale(minScale, maxScale, s)
    /\ UNCHANGED <<minScale, maxScale, zoomEnabled, wheelHandler>>
    /\ UNCHANGED <<cubismVars, moveVars, gazeVars, tailVars>>

\* CubismRenderer.setScaleRange
setScaleRange ==
    /\ \E r \in ScaleRanges :
        /\ minScale' = r.min
        /\ maxScale' = r.max
        /\ scale' = ClampScale(r.min, r.max, scale)
    /\ UNCHANGED <<zoomEnabled, wheelHandler>>
    /\ UNCHANGED <<cubismVars, moveVars, gazeVars, tailVars>>

\* CubismRenderer.setZoomEnabled: attaches or detaches the wheel handler
\* (the canvas is there from initialize to dispose)
setZoomEnabled ==
    /\ \E enabled \in BOOLEAN :
        /\ zoomEnabled # enabled
        /\ zoomEnabled' = enabled
        /\ wheelHandler' = IF rendererGl THEN enabled ELSE wheelHandler
    /\ UNCHANGED <<scale, minScale, maxScale>>
    /\ UNCHANGED <<cubismVars, moveVars, gazeVars, tailVars>>

\* newScale = _scale * (1 + -deltaY * 0.001)
WheelScale(s, deltaY) == (s * (ScaleUnit - deltaY)) \div ScaleUnit

\* the wheel handler of _attachWheelHandler, called while it is attached
wheel ==
    /\ wheelHandler
    /\ \E deltaY \in WheelDeltas :
           scale' = ClampScale(minScale, maxScale, WheelScale(scale, deltaY))
    /\ UNCHANGED <<minScale, maxScale, zoomEnabled, wheelHandler>>
    /\ UNCHANGED <<cubismVars, moveVars, gazeVars, tailVars>>

(***************************************************************************)
(* CubismModel: gaze and movement tilt.  Values are kept in                *)
(* ten-thousandths (1.0 is 10000); a product or a blend step is rounded    *)
(* towards zero to the next ten-thousandth.                                *)
(***************************************************************************)
TiltScale == 10000

TruncDiv(a, b) == IF a >= 0 THEN a \div b ELSE -((-a) \div b)

NoGazeCall == [fn |-> "none"]

GazeIdle ==
    /\ gaze = [lookAtX |-> 0, lookAtY |-> 0, movementTiltX |-> 0, movementTiltY |-> 0,
               movementIntensity |-> 0, isMoving |-> FALSE]
    /\ currentTilt = [x |-> 0, y |-> 0]
    /\ gazeCall = NoGazeCall
    /\ frames = 0

\* arguments callers pass: out of range, the ends, inside (5.0 is 50000)
TiltInputs == {-50000, -10000, 2500, 10000, 50000}
IntensityInputs == {-10000, 5000, 20000}

\* a clamp that forgets the lower bound
ClampUpperOnly(lo, hi, x) == Min(hi, x)

\* Math.max(lo, Math.min(hi, x))
ClampTo(lo, hi, x) == Max(lo, Min(hi, x))

\* CubismModel.setLookAt
setLookAt ==
    /\ \E x \in TiltInputs, y \in TiltInputs :
        /\ gaze' = [gaze EXCEPT !.lookAtX = ClampTo(-TiltScale, TiltScale, x),
                                !.lookAtY = ClampTo(-TiltScale, TiltScale, y)]
        /\ gazeCall' = [fn |-> "setLookAt", x |-> x, y |-> y]
    /\ UNCHANGED <<currentTilt, frames>>
    /\ UNCHANGED <<cubismVars, moveVars, scaleVars, tailVars>>

\* CubismModel.setMovementTilt
setMovementTilt ==
    /\ \E x \in TiltInputs, y \in TiltInputs, intensity \in IntensityInputs,
          isMoving \in BOOLEAN :
        /\ gaze' = [gaze EXCEPT
                       !.movementTiltX = ClampTo(-TiltScale, TiltScale, x),
                       !.movementTiltY = ClampTo(-TiltScale, TiltScale, y),
                       !.movementIntensity = ClampTo(0, TiltScale, intensity),
                       !.isMoving = isMoving]
        /\ gazeCall' = [fn |-> "setMovementTilt", x |-> x, y |-> y,
                        intensity |-> intensity, isMoving |-> isMoving]
    /\ UNCHANGED <<currentTilt, frames>>
    /\ UNCHANGED <<cubismVars, moveVars, scaleVars, tailVars>>

\* applyLookAt calls followed in one run
MaxFrames == 260

\* the target of applyLookAt: the movement tilt while moving with some
\* intensity (the y axis at half strength), the pointer otherwise
BlendTarget(g) ==
    IF g.isMoving /\ g.movementIntensity > 0
    THEN [x |-> TruncDiv(g.movementTiltX * g.movementIntensity, TiltScale),
          y |-> TruncDiv(g.movementTiltY * g.movementIntensity, 2 * TiltScale)]
    ELSE [x |-> g.lookAtX, y |-> g.lookAtY]

\* lerpSpeed, in hundredths
LerpPercent(g) == IF g.isMoving THEN 15 ELSE 3

\* a blend that adds the whole difference on top of the step
LerpOvershoot(current, target, percent) ==
    current + TruncDiv((target - current) * (100 + percent), 100)

\* current += (target - current) * lerpSpeed
Lerp(current, target, percent) ==
    current + TruncDiv((target - current) * percent, 100)

\* CubismModel.applyLookAt, called by update() once a frame
applyLookAt ==
    /\ frames < MaxFrames
    /\ currentTilt' = [x |-> Lerp(currentTilt.x, BlendTarget(gaze).x, LerpPercent(gaze)),
                       y |-> Lerp(currentTilt.y, BlendTarget(gaze).y, LerpPercent(gaze))]
    /\ frames' = frames + 1
    /\ UNCHANGED <<gaze, gazeCall>>
    /\ UNCHANGED <<cubismVars, moveVars, scaleVars, tailVars>>

\* what the setters can have stored before the frames are followed
BlendConfigs ==
    [ lookAtX : {-TiltScale, 2500, TiltScale},
      lookAtY : {0, TiltScale},
      movementTiltX : {-TiltScale, TiltScale},
      movementTiltY : {TiltScale},
      movementIntensity : {0, 5000, TiltScale},
      isMoving : BOOLEAN ]

(***************************************************************************)
(* moveToNextPosition: the move it is computing                            *)
(***************************************************************************)
\* the longest travel followed along x, in px
MaxDistance == 1300
\* the travels followed along y
TravelDeltaY == {-400, 0, 400}
\* the movementSpeed slider: 0.1 to 2.0 in steps of 0.1
SpeedTenths == 1..20

TravelIdle == travel = [deltaX |-> 0, deltaY |-> 0, speed |-> 10]

(***************************************************************************)
(* useAudio: the queue, the element being played and the lip-sync loop.    *)
(* Volumes and the lip-sync value are kept in tenths (1.0 is 10); the      *)
(* progress of a clip in percent.                                          *)
(***************************************************************************)
\* the Audio elements followed
MaxClips == 3
ClipIds  == 1..MaxClips
NoClip   == 0

LipUnit == 10

\* the volumes of a task: none, the envelope [0, 0.5, 1.0, 0.5, 0], and one
\* with an entry above 1 and one below 0
Envelopes == { <<>>, <<0, 5, 10, 5, 0>>, <<15, -2>> }

\* currentTime / (duration || 1), in percent: a clip whose duration is not
\* known reports more than its whole
ProgressPoints == {0, 19, 50, 99, 100, 250}

NoLipCall == [progress |-> 0, len |-> 0, index |-> 0, value |-> 0]

NewClip == [state |-> "none", lip |-> FALSE, late |-> 0]

AudioIdle ==
    /\ clips = [id \in ClipIds |-> NewClip]
    /\ audioRef = NoClip
    /\ animationFrameRef = "null"
    /\ queueRef = <<>>
    /\ isPlayingRef = FALSE
    /\ currentVolumesRef = <<>>
    /\ lipSyncEnabled = TRUE
    /\ lipSyncValue = 0
    /\ lipCall = NoLipCall
    /\ audioMounted = TRUE

\* the hook's refs and the store value
Audio ==
    [ clips |-> clips, audioRef |-> audioRef, raf |-> animationFrameRef,
      queue |-> queueRef, playing |-> isPlayingRef, volumes |-> currentVolumesRef,
      value |-> lipSyncValue ]

SetAudio(a) ==
    /\ clips' = a.clips
    /\ audioRef' = a.audioRef
    /\ animationFrameRef' = a.raf
    /\ queueRef' = a.queue
    /\ isPlayingRef' = a.playing
    /\ currentVolumesRef' = a.volumes
    /\ lipSyncValue' = a.value

\* audio.pause(); audio.src = '': the element stops, and can still fire the
\* error event of an empty src and reject a play() that had not settled
Silence(c) ==
    [c EXCEPT !.state = "stopped", !.late = IF c.state = "blocked" THEN 2 ELSE 1]

\* if (animationFrameRef.current) cancelAnimationFrame(...), the id is kept
CancelFrame(raf) == IF raf = "pending" THEN "stale" ELSE raf

FreshClip(a) == CHOOSE id \in ClipIds :
                    /\ a.clips[id].state = "none"
                    /\ \A other \in ClipIds : other < id => a.clips[other].state # "none"

\* playAudio up to audio.load(): the element before is silenced, the new
\* one becomes current
playAudio(a, volumes, lip) ==
    LET silenced == IF a.audioRef # NoClip
                    THEN [a.clips EXCEPT ![a.audioRef] = Silence(@)]
                    ELSE a.clips
        id       == FreshClip(a)
    IN [a EXCEPT !.clips    = [silenced EXCEPT ![id] = [state |-> "loading", lip |-> lip, late |-> 0]],
                 !.raf      = CancelFrame(a.raf),
                 !.audioRef = id,
                 !.volumes  = volumes,
                 !.playing  = TRUE]

\* processQueue, of the render whose lipSyncEnabled is lip
processQueue(a, lip) ==
    IF a.playing \/ Len(a.queue) = 0
    THEN a
    ELSE playAudio([a EXCEPT !.queue = Tail(a.queue)], Head(a.queue), lip)

\* setLipSyncValue(0)
KeepValue(v) == v
ResetValue(v) == 0

\* the cleanup closure of a clip's playAudio
cleanup(a, lip) ==
    processQueue([a EXCEPT !.playing = FALSE,
                           !.value   = ResetValue(a.value),
                           !.raf     = "null"], lip)

\* stopAudio
stopAudio(a) ==
    [a EXCEPT !.clips    = IF a.audioRef # NoClip
                           THEN [a.clips EXCEPT ![a.audioRef] = Silence(@)]
                           ELSE a.clips,
              !.audioRef = NoClip,
              !.raf      = "null",
              !.playing  = FALSE,
              !.value    = ResetValue(a.value)]

\* Math.min(Math.floor(progress * volumes.length), volumes.length - 1)
VolumeIndexUncapped(progress, len) == (progress * len) \div 100
VolumeIndex(progress, len) == Min((progress * len) \div 100, len - 1)

\* Math.min(1, Math.max(0, volume))
NormalizedVolume(volume) == Min(LipUnit, Max(0, volume))

AudioFrame == UNCHANGED <<cubismVars, moveVars, scaleVars, gazeVars, travelVars, wsVars>>

\* the tasks taken so far, and a fresh element left for one more
CanAdd ==
    Cardinality({id \in ClipIds : clips[id].state # "none"}) + Len(queueRef) < MaxClips

addAudioTask ==
    /\ audioMounted
    /\ CanAdd
    /\ \E volumes \in Envelopes :
        SetAudio(processQueue([Audio EXCEPT !.queue = Append(@, volumes)], lipSyncEnabled))
    /\ UNCHANGED <<lipSyncEnabled, lipCall, audioMounted>>
    /\ AudioFrame

stopAudioCalled ==
    /\ audioMounted
    /\ SetAudio(stopAudio(Audio))
    /\ UNCHANGED <<lipSyncEnabled, lipCall, audioMounted>>
    /\ AudioFrame

clearQueue ==
    /\ audioMounted
    /\ SetAudio(stopAudio([Audio EXCEPT !.queue = <<>>]))
    /\ UNCHANGED <<lipSyncEnabled, lipCall, audioMounted>>
    /\ AudioFrame

\* the cleanup of the unmount effect
unmountAudio ==
    /\ audioMounted
    /\ audioMounted' = FALSE
    /\ SetAudio([stopAudio(Audio) EXCEPT !.queue = <<>>])
    /\ UNCHANGED <<lipSyncEnabled, lipCall>>
    /\ AudioFrame

\* the lip-sync setting is changed and the hook rendered again
setLipSyncEnabled ==
    /\ audioMounted
    /\ lipSyncEnabled' = ~lipSyncEnabled
    /\ UNCHANGED <<clips, audioRef, animationFrameRef, queueRef, isPlayingRef,
                   currentVolumesRef, lipSyncValue, lipCall, audioMounted>>
    /\ AudioFrame

\* canplaythrough: play() is called, and either starts the clip or will be
\* rejected; the lip-sync loop is started
canplaythrough ==
    /\ \E id \in ClipIds, outcome \in {"playing", "blocked"} :
        /\ clips[id].state = "loading"
        /\ clips' = [clips EXCEPT ![id].state = outcome]
        /\ animationFrameRef' =
              IF clips[id].lip /\ Len(currentVolumesRef) > 0 THEN "pending"
              ELSE animationFrameRef
    /\ UNCHANGED <<audioRef, queueRef, isPlayingRef, currentVolumesRef, lipSyncEnabled,
                   lipSyncValue, lipCall, audioMounted>>
    /\ AudioFrame

\* the play() promise of a clip is rejected
playRejected ==
    /\ \E id \in ClipIds :
        /\ clips[id].state = "blocked"
        /\ SetAudio(cleanup([Audio EXCEPT !.clips[id].state = "failed"], clips[id].lip))
    /\ UNCHANGED <<lipSyncEnabled, lipCall, audioMounted>>
    /\ AudioFrame

\* the ended event of a clip
ended ==
    /\ \E id \in ClipIds :
        /\ clips[id].state = "playing"
        /\ SetAudio(cleanup([Audio EXCEPT !.clips[id].state = "ended"], clips[id].lip))
    /\ UNCHANGED <<lipSyncEnabled, lipCall, audioMounted>>
    /\ AudioFrame

\* the error event of a clip that is loading or playing
audioError ==
    /\ \E id \in ClipIds :
        /\ clips[id].state \in {"loading", "playing", "blocked"}
        /\ SetAudio(cleanup([Audio EXCEPT !.clips[id].state = "failed"], clips[id].lip))
    /\ UNCHANGED <<lipSyncEnabled, lipCall, audioMounted>>
    /\ AudioFrame

\* an event of an element that was silenced: the error of its empty src,
\* or the rejection of its play()
lateEvent ==
    /\ \E id \in ClipIds :
        /\ clips[id].state = "stopped"
        /\ clips[id].late > 0
        /\ SetAudio(cleanup([Audio EXCEPT !.clips[id].late = @ - 1], clips[id].lip))
    /\ UNCHANGED <<lipSyncEnabled, lipCall, audioMounted>>
    /\ AudioFrame

\* audio.paused of the current element
Paused == clips[audioRef].state # "playing"

\* updateLipSync, the frame callback: its closure is one whose
\* lipSyncEnabled is true, or it would not have been requested
updateLipSync ==
    /\ animationFrameRef = "pending"
    /\ IF audioRef = NoClip \/ ~isPlayingRef
       THEN /\ animationFrameRef' = "stale"
            /\ UNCHANGED <<lipSyncValue, lipCall>>
       ELSE IF Len(currentVolumesRef) = 0 \/ Paused
       THEN /\ animationFrameRef' = "stale"
            /\ lipSyncValue' = 0
            /\ UNCHANGED lipCall
       ELSE \E progress \in ProgressPoints :
            LET len   == Len(currentVolumesRef)
                index == VolumeIndex(progress, len)
                value == IF index + 1 \in 1..len
                         THEN NormalizedVolume(currentVolumesRef[index + 1])
                         ELSE 0
            IN /\ lipSyncValue' = value
               /\ lipCall' = [progress |-> progress, len |-> len, index |-> index,
                              value |-> value]
               /\ animationFrameRef' = "pending"
    /\ UNCHANGED <<clips, audioRef, queueRef, isPlayingRef, currentVolumesRef,
                   lipSyncEnabled, audioMounted>>
    /\ AudioFrame

(***************************************************************************)
(* useWebSocket: connect, disconnect, the socket's events and the          *)
(* reconnect timer.                                                        *)
(***************************************************************************)
\* the WebSocket objects followed
MaxSockets == 3
SocketIds  == 1..MaxSockets
NoSocket   == 0
NoTimer    == 0

\* the default of the maxReconnectAttempts option
maxReconnectAttempts == 10

WsIdle ==
    /\ sockets = [id \in SocketIds |-> "none"]
    /\ wsRef = NoSocket
    /\ reconnectAttemptsRef = 0
    /\ reconnectTimeoutRef = NoTimer
    /\ liveTimers = {}
    /\ timerCount = 0
    /\ wsDisconnected = FALSE
    /\ wsMounted = TRUE

Ws == [ sockets |-> sockets, wsRef |-> wsRef, attempts |-> reconnectAttemptsRef,
        timeout |-> reconnectTimeoutRef, live |-> liveTimers, count |-> timerCount ]

SetWs(w) ==
    /\ sockets' = w.sockets
    /\ wsRef' = w.wsRef
    /\ reconnectAttemptsRef' = w.attempts
    /\ reconnectTimeoutRef' = w.timeout
    /\ liveTimers' = w.live
    /\ timerCount' = w.count

WsFrame == UNCHANGED <<cubismVars, moveVars, scaleVars, gazeVars, travelVars, audioVars>>

FreshSocket(w) == CHOOSE id \in SocketIds :
                      /\ w.sockets[id] = "none"
                      /\ \A other \in SocketIds : other < id => w.sockets[other] # "none"

CanOpen == \E id \in SocketIds : sockets[id] = "none"

\* connect: nothing when the current socket is open, else a new WebSocket
connect(w) ==
    IF w.wsRef # NoSocket /\ w.sockets[w.wsRef] = "open" THEN w
    ELSE LET id == FreshSocket(w)
         IN [w EXCEPT !.sockets[id] = "connecting", !.wsRef = id]

\* ws.onclose: the ref is nulled and, below the attempt limit, the reconnect
\* timer armed
onclose(w) ==
    IF w.attempts < maxReconnectAttempts
    THEN [w EXCEPT !.wsRef = NoSocket,
                   !.timeout = w.count + 1,
                   !.live = w.live \cup {w.count + 1},
                   !.count = w.count + 1]
    ELSE [w EXCEPT !.wsRef = NoSocket]

\* disconnect: clearTimeout of the timer in the ref, close() of the socket
disconnect(w) ==
    [w EXCEPT !.live    = w.live \ {w.timeout},
              !.sockets = IF w.wsRef # NoSocket /\ w.sockets[w.wsRef] \in {"connecting", "open"}
                          THEN [w.sockets EXCEPT ![w.wsRef] = "closing"]
                          ELSE w.sockets,
              !.wsRef   = NoSocket]

\* connect() called by the hook's effect or by a user of the hook
connectCalled ==
    /\ wsMounted
    /\ CanOpen
    /\ SetWs(connect(Ws))
    /\ wsDisconnected' = FALSE
    /\ UNCHANGED wsMounted
    /\ WsFrame

\* disconnect() called by a user of the hook or by the effect's cleanup when
\* its dependencies change
disconnectCalled ==
    /\ wsMounted
    /\ SetWs(disconnect(Ws))
    /\ wsDisconnected' = TRUE
    /\ UNCHANGED wsMounted
    /\ WsFrame

\* the effect's cleanup at unmount
unmountSocket ==
    /\ wsMounted
    /\ SetWs(disconnect(Ws))
    /\ wsDisconnected' = TRUE
    /\ wsMounted' = FALSE
    /\ WsFrame

\* ws.onopen
socketOpens ==
    /\ \E id \in SocketIds :
        /\ sockets[id] = "connecting"
        /\ sockets' = [sockets EXCEPT ![id] = "open"]
    /\ reconnectAttemptsRef' = 0
    /\ UNCHANGED <<wsRef, reconnectTimeoutRef, liveTimers, timerCount, wsDisconnected,
                   wsMounted>>
    /\ WsFrame

\* the close event of a socket: the connection failed, the server closed
\* it, or close() has completed
socketCloses ==
    /\ \E id \in SocketIds :
        /\ sockets[id] \in {"connecting", "open", "closing"}
        /\ SetWs(onclose([Ws EXCEPT !.sockets[id] = "closed"]))
    /\ UNCHANGED <<wsDisconnected, wsMounted>>
    /\ WsFrame

\* a reconnect timer fires
reconnectTimerFires ==
    /\ CanOpen
    /\ \E t \in liveTimers :
           SetWs(connect([Ws EXCEPT !.live = @ \ {t}, !.attempts = @ + 1]))
    /\ UNCHANGED <<wsDisconnected, wsMounted>>
    /\ WsFrame

ExtIdle == ScaleIdle /\ GazeIdle /\ TravelIdle /\ AudioIdle /\ WsIdle

(***************************************************************************)
(* Movement scheduler: pure parts (useCharacterMovement)                   *)
(***************************************************************************)
\* calculateBounds
CharacterWidth  == 300
CharacterHeight == 400
BoundsPadding   == 50

calculateBounds(window) ==
    [ minX |-> BoundsPadding,
      maxX |-> window.innerWidth - CharacterWidth - BoundsPadding,
      minY |-> BoundsPadding,
      maxY |-> window.innerHeight - CharacterHeight - BoundsPadding ]

\* (max - min) * 0.1; the modelled windows make the extent a multiple of 10
TenPercent(extent) == extent \div 10

\* the safe rectangle of generateRandomTarget
SafeRect(b) ==
    LET paddingX == TenPercent(b.maxX - b.minX)
        paddingY == TenPercent(b.maxY - b.minY)
    IN [ minX |-> b.minX + paddingX, maxX |-> b.maxX - paddingX,
         minY |-> b.minY + paddingY, maxY |-> b.maxY - paddingY ]

MAX_STEP == 350

\* values of (Math.random() - 0.5) * 2 * MAX_STEP, which lies in [-350, 350)
RandomOffsets == {-300, 300}

\* Math.max(lo, Math.min(hi, v))
Clamp(lo, hi, v) == Max(lo, Min(hi, v))

\* the axes the switch of generateRandomTarget moves, by mode
MovesX(mode) == mode \in {"free", "horizontal"}
MovesY(mode) == mode \in {"free", "vertical"}

generateRandomTarget(mode, current, b, offX, offY) ==
    LET safe    == SafeRect(b)
        targetX == IF MovesX(mode) THEN current.x + offX ELSE current.x
        targetY == IF MovesY(mode) THEN current.y + offY ELSE current.y
    IN [ x |-> Clamp(safe.minX, safe.maxX, targetX),
         y |-> Clamp(safe.minY, safe.maxY, targetY) ]

\* Math.sqrt, rounded down to a whole pixel
ISqrt(n) == CHOOSE r \in 0..(n + 1) : r * r <= n /\ n < (r + 1) * (r + 1)

Distance(dx, dy) ==
    LET a == Abs(dx)
        c == Abs(dy)
    IN IF c = 0 THEN a ELSE IF a = 0 THEN c
       ELSE CHOOSE r \in Max(a, c)..(a + c) :
                r * r <= a * a + c * c /\ a * a + c * c < (r + 1) * (r + 1)

MinMoveDistance == 10

\* direction components are kept in hundredths
DirScale == 100
Direction(dx, dy, distance) ==
    [ x |-> (dx * DirScale) \div distance, y |-> (dy * DirScale) \div distance ]

\* 0.5 + Math.min(speed, 2.0) * 0.2, then Math.min(intensity, 1); speed in
\* tenths, the result in hundredths
Intensity(speed) == Min(50 + Min(speed, 20) * 2, 100)

\* Math.max(1500, Math.min(10000, distance / (60 * Math.max(0.1, speed)) * 1000))
BaseSpeed == 60
MinTransitionMs == 1500
MaxTransitionMs == 10000
TransitionUnclamped(distance, speed) ==
    (distance * 10000) \div (BaseSpeed * Max(1, speed))

TransitionMs(distance, speed) ==
    Max(MinTransitionMs,
        Min(MaxTransitionMs, (distance * 10000) \div (BaseSpeed * Max(1, speed))))

\* restProbability = 1.0 - activeness * 0.9, in thousandths; Math.random() is
\* in [0, 1), so resting is possible when it is above 0 and moving on when
\* it is below 1
RestProbability(activeness) == 1000 - activeness * 90
RestChoices(activeness) ==
    {r \in BOOLEAN : IF r THEN RestProbability(activeness) > 0
                          ELSE RestProbability(activeness) < 1000}

(***************************************************************************)
(* Movement scheduler: the hook's refs and callbacks                       *)
(*                                                                         *)
(* The callbacks run to completion, one after the other, on the refs and   *)
(* on character.movement; they are written as functions of the record      *)
(*   [paused, resting, timeout, endTimer, movement]                        *)
(* and the actions below store the result in the variables.                *)
(***************************************************************************)
\* no timeoutRef timer is pending
NoArm == [by |-> "none"]

Refs ==
    [ paused   |-> isPausedRef,
      resting  |-> isRestingRef,
      timeout  |-> timeoutRef,
      endTimer |-> movementEndTimerRef,
      movement |-> movement,
      armed    |-> armed,
      now      |-> settingsRef ]

SetRefs(h) ==
    /\ isPausedRef' = h.paused
    /\ isRestingRef' = h.resting
    /\ timeoutRef' = h.timeout
    /\ movementEndTimerRef' = h.endTimer
    /\ movement' = h.movement
    /\ armed' = IF h.timeout \in {"move", "rest"} THEN h.armed ELSE NoArm

\* clearTimeout(ref.current) without ref.current = null: the id stays truthy
Cleared(timer) == IF timer = "null" THEN "null" ELSE "stale"

StoreSettings ==
    [ movementSpeed      |-> movementSpeed,
      movementActiveness |-> movementActiveness,
      movementMode       |-> movementMode ]

stop(h) ==
    [ paused   |-> TRUE,
      resting  |-> FALSE,
      timeout  |-> "null",
      endTimer |-> "null",
      movement |-> [h.movement EXCEPT !.isMoving = FALSE, !.intensity = 0],
      armed    |-> NoArm,
      now      |-> h.now ]

scheduleMovement(h) ==
    [h EXCEPT !.timeout = "move",
              !.armed   = [by |-> "scheduleMovement", settings |-> h.now]]

scheduleNextMove(h, settings, shouldRest) ==
    LET cleared == [h EXCEPT !.timeout = "null"]
        byThis  == [by |-> "scheduleNextMove", settings |-> settings]
    IN IF h.paused \/ settings.movementMode = "disabled" THEN cleared
       ELSE IF shouldRest
            THEN [cleared EXCEPT !.resting = TRUE, !.timeout = "rest", !.armed = byThis]
       ELSE [scheduleMovement(cleared) EXCEPT !.armed = byThis]

resume(h, settings, shouldRest) ==
    LET resumed == [h EXCEPT !.paused = FALSE]
    IN IF settings.movementMode # "disabled"
       THEN scheduleNextMove(resumed, settings, shouldRest)
       ELSE resumed

\* the callback of movementEndTimerRef's timer
movementEnd(h, settings, shouldRest) ==
    scheduleNextMove([h EXCEPT !.movement.isMoving = FALSE, !.endTimer = "null"],
                     settings, shouldRest)

\* moveToNextPosition on the position and bounds of its render; the result is
\* the refs and the position it leaves, and whether it wrote the position
moveToNextPosition(h, settings, current, b, offX, offY, shouldRest) ==
    IF h.paused \/ settings.movementMode = "disabled" \/ h.resting
    THEN [refs |-> h, position |-> current, wrote |-> FALSE]
    ELSE
    LET target   == generateRandomTarget(settings.movementMode, current, b, offX, offY)
        deltaX   == target.x - current.x
        deltaY   == target.y - current.y
        distance == Distance(deltaX, deltaY)
        started  ==
            [h EXCEPT !.movement =
                          [ direction          |-> Direction(deltaX, deltaY, distance),
                            isMoving           |-> TRUE,
                            intensity          |-> Intensity(settings.movementSpeed),
                            transitionDuration |-> TransitionMs(distance, settings.movementSpeed) ],
                      !.endTimer = "pending"]
    IN [ refs     |-> IF distance > MinMoveDistance THEN started
                      ELSE scheduleNextMove(h, settings, shouldRest),
         position |-> target,
         wrote    |-> TRUE ]

\* moveToNextPosition from deltaX and deltaY on: the MovementState it writes,
\* none when the travel is too short to move
TransitionFor(t, old) ==
    LET distance == Distance(t.deltaX, t.deltaY)
    IN IF distance > MinMoveDistance
       THEN [ direction          |-> Direction(t.deltaX, t.deltaY, distance),
              isMoving           |-> TRUE,
              intensity          |-> Intensity(t.speed),
              transitionDuration |-> TransitionMs(distance, t.speed) ]
       ELSE old

startTransition ==
    /\ ~movement.isMoving
    /\ movement' = TransitionFor(travel, movement)
    /\ UNCHANGED <<uiMode, movementMode, movementSpeed, movementActiveness, position,
                   envVars, hookVars, moveInFlight, canvasVars>>
    /\ UNCHANGED <<cubismVars, scaleVars, gazeVars, travelVars, audioVars, wsVars>>

\* App calls useCharacterMovement() without options: enabled defaults to true
externalEnabled == TRUE

SchedulerActive ==
    externalEnabled /\ uiMode = "companion" /\ movementMode # "disabled"

\* the body of the mode effect
ModeEffect(h, active) ==
    IF ~active THEN stop(h)
    ELSE scheduleMovement([h EXCEPT !.paused = FALSE,
                                    !.resting = FALSE,
                                    !.timeout = Cleared(@),
                                    !.endTimer = Cleared(@)])

\* a speed / activeness effect that does nothing
SpeedEffectSkipped(h, active, settings, shouldRest) == h

\* a speed / activeness effect that leaves a rest alone
SpeedEffectKeepsRest(h, active, settings, shouldRest) ==
    IF ~active \/ h.paused \/ h.endTimer # "null" \/ h.resting THEN h
    ELSE IF h.timeout # "null"
         THEN scheduleNextMove([h EXCEPT !.timeout = Cleared(@)], settings, shouldRest)
         ELSE h

\* the body of the speed / activeness effect
SpeedEffect(h, active, settings, shouldRest) ==
    IF ~active \/ h.paused \/ h.endTimer # "null" THEN h
    ELSE IF h.resting \/ h.timeout # "null"
         THEN scheduleNextMove([h EXCEPT !.timeout = Cleared(@), !.resting = FALSE],
                               settings, shouldRest)
         ELSE h

(***************************************************************************)
(* Store handlers the settings panel and the mode switch call              *)
(***************************************************************************)
UiModes       == {"studio", "live", "companion"}
MovementModes == {"disabled", "free", "horizontal", "vertical"}
Speeds        == {10, 20}
Activenesses  == {5, 10}
Windows       == { [innerWidth |-> 700, innerHeight |-> 800],
                   [innerWidth |-> 360,  innerHeight |-> 640] }

Origin == [x |-> 0, y |-> 0]

\* Every action below is a task of the event loop.  A store change the App
\* tree selects makes React render and run the effects in the microtask that
\* follows the task, before any other task: while dirty is not empty only
\* Commit is enabled.
Settled == dirty = {}

\* a canvas that can be dragged in every mode
enableDragEverywhere == TRUE

\* Live2DCanvas gets enableDrag in StudioMode and LiveMode only
enableDrag == uiMode \in {"studio", "live"}

isLegacyPixelValue(pos) == Abs(pos.x) > 10 \/ Abs(pos.y) > 10

NullDrag == [null |-> TRUE]

setMode ==
    /\ mounted
    /\ Settled
    /\ \E mode \in UiModes \ {uiMode} : uiMode' = mode
    /\ dirty' = {"ui"}
    /\ UNCHANGED <<movementMode, movementSpeed, movementActiveness, position, movement,
                   envVars, bounds, settingsRef, isPausedRef, isRestingRef, timeoutRef,
                   movementEndTimerRef, armed, modeCleanup, canvasVars>>
    /\ moveInFlight' = FALSE
    /\ UNCHANGED <<cubismVars, extVars>>

setMovementMode ==
    /\ mounted
    /\ Settled
    /\ \E mode \in MovementModes \ {movementMode} : movementMode' = mode
    /\ dirty' = {"mode"}
    /\ UNCHANGED <<uiMode, movementSpeed, movementActiveness, position, movement,
                   envVars, bounds, settingsRef, isPausedRef, isRestingRef, timeoutRef,
                   movementEndTimerRef, armed, modeCleanup, canvasVars>>
    /\ moveInFlight' = FALSE
    /\ UNCHANGED <<cubismVars, extVars>>

\* the speed and activeness sliders, which CharacterSettings shows while the
\* movement mode is not 'disabled'
setMovementSpeed ==
    /\ mounted
    /\ Settled
    /\ movementMode # "disabled"
    /\ \E speed \in Speeds \ {movementSpeed} : movementSpeed' = speed
    /\ dirty' = {"speed"}
    /\ UNCHANGED <<uiMode, movementMode, movementActiveness, position, movement,
                   envVars, bounds, settingsRef, isPausedRef, isRestingRef, timeoutRef,
                   movementEndTimerRef, armed, modeCleanup, canvasVars>>
    /\ UNCHANGED moveInFlight
    /\ UNCHANGED <<cubismVars, extVars>>

setMovementActiveness ==
    /\ mounted
    /\ Settled
    /\ movementMode # "disabled"
    /\ \E activeness \in Activenesses \ {movementActiveness} :
           movementActiveness' = activeness
    /\ dirty' = {"speed"}
    /\ UNCHANGED <<uiMode, movementMode, movementSpeed, position, movement,
                   envVars, bounds, settingsRef, isPausedRef, isRestingRef, timeoutRef,
                   movementEndTimerRef, armed, modeCleanup, canvasVars>>
    /\ UNCHANGED moveInFlight
    /\ UNCHANGED <<cubismVars, extVars>>

\* the resize listener of useCharacterMovement
handleResize ==
    /\ mounted
    /\ Settled
    /\ \E window \in Windows \ {win} :
        /\ win' = window
        /\ bounds' = calculateBounds(window)
    /\ dirty' = {"bounds"}
    /\ UNCHANGED <<storeVars, isElectron, mounted, settingsRef, isPausedRef, isRestingRef,
                   timeoutRef, movementEndTimerRef, armed, modeCleanup, canvasVars>>
    /\ moveInFlight' = FALSE
    /\ UNCHANGED <<cubismVars, extVars>>

(***************************************************************************)
(* Movement scheduler: timers, React commit, stop() and resume()           *)
(***************************************************************************)
\* the rest timer of scheduleNextMove fires
restTimerFires ==
    /\ Settled
    /\ timeoutRef = "rest"
    /\ SetRefs(scheduleMovement([Refs EXCEPT !.resting = FALSE, !.timeout = "stale"]))
    /\ UNCHANGED <<uiMode, movementMode, movementSpeed, movementActiveness, position,
                   envVars, bounds, settingsRef, modeCleanup, dirty, canvasVars>>
    /\ moveInFlight' = FALSE
    /\ UNCHANGED <<cubismVars, extVars>>

\* the reaction timer of scheduleMovement fires: moveToNextPosition
moveTimerFires ==
    /\ Settled
    /\ timeoutRef = "move"
    /\ \E offX \in RandomOffsets, offY \in RandomOffsets,
          shouldRest \in RestChoices(settingsRef.movementActiveness) :
        LET r == moveToNextPosition([Refs EXCEPT !.timeout = "stale"], settingsRef,
                                    position, bounds, offX, offY, shouldRest)
        IN /\ SetRefs(r.refs)
           /\ position' = r.position
           /\ posWriter' = IF r.wrote THEN "scheduler" ELSE posWriter
           /\ dirty' = IF r.wrote THEN {"position"} ELSE {}
           /\ moveInFlight' = (r.refs.endTimer = "pending")
    /\ UNCHANGED <<uiMode, movementMode, movementSpeed, movementActiveness, envVars,
                   bounds, settingsRef, modeCleanup, hasModel, viewPos, isDragging,
                   dragStateRef, currentPosRef>>
    /\ UNCHANGED <<cubismVars, extVars>>

\* the end-of-transition timer of moveToNextPosition fires
movementEndTimerFires ==
    /\ Settled
    /\ movementEndTimerRef = "pending"
    /\ \E shouldRest \in RestChoices(settingsRef.movementActiveness) :
           SetRefs(movementEnd(Refs, settingsRef, shouldRest))
    /\ UNCHANGED <<uiMode, movementMode, movementSpeed, movementActiveness, position,
                   envVars, bounds, settingsRef, modeCleanup, dirty, canvasVars>>
    /\ moveInFlight' = FALSE
    /\ UNCHANGED <<cubismVars, extVars>>

\* ElectronCompanion's entry position: centred, 100px above the bottom
CompanionBottomGap == 100
CompanionInitial(window) ==
    [ x |-> (window.innerWidth - CharacterWidth) \div 2,
      y |-> window.innerHeight - CharacterHeight - CompanionBottomGap ]

\* React renders the App tree and runs the effects whose dependencies changed:
\* the children's first (Live2DCanvas is remounted with the mode's component,
\* ElectronCompanion centres a character at the origin), then the hook's, all
\* cleanups before all bodies, bodies in the order of declaration.
Commit ==
    /\ mounted
    /\ ~Settled
    /\ \E shouldRest \in RestChoices(movementActiveness) :
        LET remount       == "ui" \in dirty
            guardFires    == remount /\ enableDrag /\ isLegacyPixelValue(position)
            companionInit == /\ uiMode = "companion" /\ isElectron
                             /\ dirty \cap {"ui", "position"} # {}
                             /\ position = Origin
            modeDeps      == dirty \cap {"position", "bounds", "mode", "ui"} # {}
            speedDeps     == dirty \cap {"speed", "mode", "ui"} # {}
            settingsDeps  == dirty \cap {"speed", "mode"} # {}
            settings      == IF settingsDeps THEN StoreSettings ELSE settingsRef
            rendered      == [Refs EXCEPT !.now = settings]
            cleaned       == IF modeDeps /\ modeCleanup THEN stop(rendered) ELSE rendered
            afterMode     == IF modeDeps THEN ModeEffect(cleaned, SchedulerActive)
                             ELSE cleaned
            afterSpeed    == IF speedDeps
                             THEN SpeedEffect(afterMode, SchedulerActive, settings, shouldRest)
                             ELSE afterMode
        IN /\ SetRefs(afterSpeed)
           /\ settingsRef' = settings
           /\ modeCleanup' = IF modeDeps THEN SchedulerActive ELSE modeCleanup
           /\ position' = IF guardFires THEN Origin
                          ELSE IF companionInit THEN CompanionInitial(win)
                          ELSE position
           /\ posWriter' = IF guardFires THEN "guard"
                           ELSE IF companionInit THEN "companion"
                           ELSE posWriter
           /\ dirty' = IF guardFires \/ companionInit THEN {"position"} ELSE {}
           /\ IF remount
              THEN /\ hasModel' = FALSE
                   /\ viewPos' = Origin
                   /\ isDragging' = FALSE
                   /\ dragStateRef' = NullDrag
                   /\ currentPosRef' = IF enableDrag /\ ~guardFires THEN position ELSE Origin
              ELSE UNCHANGED <<hasModel, viewPos, isDragging, dragStateRef, currentPosRef>>
    /\ UNCHANGED <<uiMode, movementMode, movementSpeed, movementActiveness, envVars, bounds>>
    /\ moveInFlight' = (moveInFlight /\ dirty = {"position"})
    /\ UNCHANGED <<cubismVars, extVars>>

\* a caller of the hook's returned stop()
StopCalled ==
    /\ mounted
    /\ Settled
    /\ SetRefs(stop(Refs))
    /\ UNCHANGED <<uiMode, movementMode, movementSpeed, movementActiveness, position,
                   envVars, bounds, settingsRef, modeCleanup, dirty, canvasVars>>
    /\ moveInFlight' = FALSE
    /\ UNCHANGED <<cubismVars, extVars>>

\* an unmount that leaves the timers alone
unmountKeepsTimers(h) == h

\* the unmount effect's cleanup: clearTimeout of both refs
unmountCleanup(h) ==
    [h EXCEPT !.timeout = Cleared(h.timeout), !.endTimer = Cleared(h.endTimer)]

\* React unmounts App: the hook's effect cleanups run in the order of the
\* effects, the mode effect's (if its last run returned one) before the
\* unmount effect's; the resize listener is removed
unmount ==
    /\ mounted
    /\ mounted' = FALSE
    /\ SetRefs(unmountCleanup(IF modeCleanup THEN stop(Refs) ELSE Refs))
    /\ modeCleanup' = FALSE
    /\ dirty' = {}
    /\ moveInFlight' = FALSE
    /\ UNCHANGED <<uiMode, movementMode, movementSpeed, movementActiveness, position,
                   isElectron, win, bounds, settingsRef, canvasVars>>
    /\ UNCHANGED <<cubismVars, extVars>>

\* a caller of the hook's returned resume()
ResumeCalled ==
    /\ mounted
    /\ Settled
    /\ \E shouldRest \in RestChoices(settingsRef.movementActiveness) :
           SetRefs(resume(Refs, settingsRef, shouldRest))
    /\ UNCHANGED <<uiMode, movementMode, movementSpeed, movementActiveness, position,
                   envVars, bounds, settingsRef, modeCleanup, dirty, canvasVars>>
    /\ moveInFlight' = FALSE
    /\ UNCHANGED <<cubismVars, extVars>>

(***************************************************************************)
(* Drag controller (useCharacterTransform) on the Live2DCanvas             *)
(***************************************************************************)
\* canvas.getBoundingClientRect()
CanvasRect == [width |-> 400, height |-> 200]

\* pointer coordinates and buttons of the pointer events
PointerPoints == { [clientX |-> 0, clientY |-> 0], [clientX |-> 100, clientY |-> 100] }
MouseButtons  == {0, 2}

\* the model keeps drag coordinates within this distance of the origin
MaxDragCoord == 1

\* (deltaPixelX / rect.width) * 2 * (rect.width / rect.height)
DragDeltaX(deltaPixelX, rect) == (2 * deltaPixelX) \div rect.height
\* -(deltaPixelY / rect.height) * 2
DragDeltaY(deltaPixelY, rect) == -((2 * deltaPixelY) \div rect.height)

\* Live2DCanvas.loadModel has put a model into the canvas' renderer; its
\* matrix is centred by the model's layout, taken as the origin
modelLoaded ==
    /\ mounted
    /\ Settled
    /\ ~hasModel
    /\ hasModel' = TRUE
    /\ viewPos' = Origin
    /\ UNCHANGED <<storeVars, envVars, hookVars, isDragging, dragStateRef,
                   currentPosRef, posWriter>>
    /\ moveInFlight' = FALSE
    /\ UNCHANGED <<cubismVars, extVars>>

\* the position subscription of useCharacterTransform, called by the store on
\* a write of the position: what it leaves in currentPosRef and in the view
subscribePosition(pos) ==
    IF ~enableDrag \/ dragStateRef # NullDrag \/ isLegacyPixelValue(pos)
    THEN [currentPos |-> currentPosRef, view |-> viewPos]
    ELSE [currentPos |-> pos, view |-> IF hasModel THEN pos ELSE viewPos]

\* the character settings panel: the position select writes -200, 0 or 200
\* into x, the vertical slider a multiple of 10 into y
PanelXs == {-200, 0, 200}
PanelYs == {-10, 0, 10, 20}

setPanelPosition ==
    /\ mounted
    /\ Settled
    /\ \E p \in {[x |-> x, y |-> position.y] : x \in PanelXs}
                 \cup {[x |-> position.x, y |-> v] : v \in PanelYs} :
        /\ position' = p
        /\ currentPosRef' = subscribePosition(p).currentPos
        /\ viewPos' = subscribePosition(p).view
    /\ posWriter' = "panel"
    /\ dirty' = {"position"}
    /\ moveInFlight' = FALSE
    /\ UNCHANGED <<uiMode, movementMode, movementSpeed, movementActiveness, movement,
                   envVars, bounds, settingsRef, isPausedRef, isRestingRef, timeoutRef,
                   movementEndTimerRef, armed, modeCleanup, hasModel, isDragging, dragStateRef>>
    /\ UNCHANGED <<cubismVars, extVars>>

handlePointerDown ==
    /\ mounted
    /\ Settled
    /\ \E button \in MouseButtons, e \in PointerPoints :
        IF ~enableDrag \/ button # 0
        THEN UNCHANGED <<dragStateRef, currentPosRef, isDragging>>
        ELSE /\ dragStateRef' = [ startMouseX |-> e.clientX, startMouseY |-> e.clientY,
                                  startPosX |-> position.x, startPosY |-> position.y ]
             /\ currentPosRef' = position
             /\ isDragging' = TRUE
    /\ UNCHANGED <<storeVars, envVars, hookVars, hasModel, viewPos, posWriter>>
    /\ moveInFlight' = FALSE
    /\ UNCHANGED <<cubismVars, extVars>>

\* a pointer-move that persists every intermediate position
handlePointerMovePersisting ==
    /\ mounted
    /\ Settled
    /\ isDragging
    /\ dragStateRef # NullDrag
    /\ \E e \in PointerPoints :
        LET newX == dragStateRef.startPosX
                        + DragDeltaX(e.clientX - dragStateRef.startMouseX, CanvasRect)
            newY == dragStateRef.startPosY
                        + DragDeltaY(e.clientY - dragStateRef.startMouseY, CanvasRect)
        IN /\ Abs(newX) <= MaxDragCoord
           /\ Abs(newY) <= MaxDragCoord
           /\ currentPosRef' = [x |-> newX, y |-> newY]
           /\ viewPos' = IF hasModel THEN [x |-> newX, y |-> newY] ELSE viewPos
           /\ position' = [x |-> newX, y |-> newY]
    /\ posWriter' = "drag"
    /\ dirty' = {"position"}
    /\ moveInFlight' = FALSE
    /\ UNCHANGED <<uiMode, movementMode, movementSpeed, movementActiveness, movement,
                   envVars, bounds, settingsRef, isPausedRef, isRestingRef, timeoutRef,
                   movementEndTimerRef, armed, modeCleanup, hasModel, isDragging, dragStateRef>>
    /\ UNCHANGED <<cubismVars, extVars>>

handlePointerMove ==
    /\ mounted
    /\ Settled
    /\ \E e \in PointerPoints :
        IF ~isDragging \/ dragStateRef = NullDrag
        THEN UNCHANGED <<currentPosRef, viewPos>>
        ELSE LET newX == dragStateRef.startPosX
                             + DragDeltaX(e.clientX - dragStateRef.startMouseX, CanvasRect)
                 newY == dragStateRef.startPosY
                             + DragDeltaY(e.clientY - dragStateRef.startMouseY, CanvasRect)
             IN /\ Abs(newX) <= MaxDragCoord \/ newX = dragStateRef.startPosX
                /\ Abs(newY) <= MaxDragCoord \/ newY = dragStateRef.startPosY
                /\ currentPosRef' = [x |-> newX, y |-> newY]
                /\ viewPos' = IF hasModel THEN [x |-> newX, y |-> newY] ELSE viewPos
    /\ UNCHANGED <<storeVars, envVars, hookVars, hasModel, isDragging, dragStateRef,
                   posWriter>>
    /\ moveInFlight' = FALSE
    /\ UNCHANGED <<cubismVars, extVars>>

handlePointerUp ==
    /\ mounted
    /\ Settled
    /\ IF ~isDragging \/ dragStateRef = NullDrag
       THEN UNCHANGED <<position, posWriter, dirty, dragStateRef, isDragging>>
       ELSE /\ position' = currentPosRef
            /\ posWriter' = "drag"
            /\ dirty' = {"position"}
            /\ dragStateRef' = NullDrag
            /\ isDragging' = FALSE
    /\ UNCHANGED <<uiMode, movementMode, movementSpeed, movementActiveness, movement,
                   envVars, bounds, settingsRef, isPausedRef, isRestingRef, timeoutRef,
                   movementEndTimerRef, armed, modeCleanup, hasModel, viewPos, currentPosRef>>
    /\ moveInFlight' = FALSE
    /\ UNCHANGED <<cubismVars, extVars>>

handlePointerCancel ==
    /\ mounted
    /\ Settled
    /\ IF isDragging /\ dragStateRef # NullDrag
       THEN LET originalPos == [x |-> dragStateRef.startPosX, y |-> dragStateRef.startPosY]
            IN /\ currentPosRef' = originalPos
               /\ viewPos' = IF hasModel THEN originalPos ELSE viewPos
       ELSE UNCHANGED <<currentPosRef, viewPos>>
    /\ dragStateRef' = NullDrag
    /\ isDragging' = FALSE
    /\ UNCHANGED <<storeVars, envVars, hookVars, hasModel, posWriter>>
    /\ moveInFlight' = FALSE
    /\ UNCHANGED <<cubismVars, extVars>>

(***************************************************************************)
(* Specifications                                                          *)
(***************************************************************************)
\* the App tree after its first commit, on the stores' initial values: the
\* mode effect has run stop() for the studio mode
MoveMounted ==
    /\ mounted = TRUE
    /\ uiMode = "studio"
    /\ movementMode = "disabled"
    /\ movementSpeed = 10
    /\ movementActiveness = 5
    /\ position = Origin
    /\ movement = [direction |-> Origin, isMoving |-> FALSE, intensity |-> 0,
                   transitionDuration |-> 0]
    /\ bounds = calculateBounds(win)
    /\ settingsRef = StoreSettings
    /\ isPausedRef = TRUE
    /\ isRestingRef = FALSE
    /\ timeoutRef = "null"
    /\ movementEndTimerRef = "null"
    /\ armed = NoArm
    /\ modeCleanup = FALSE
    /\ dirty = {}
    /\ moveInFlight = FALSE
    /\ hasModel = FALSE
    /\ viewPos = Origin
    /\ isDragging = FALSE
    /\ dragStateRef = NullDrag
    /\ currentPosRef = Origin
    /\ posWriter = "init"

DesktopWindow == [innerWidth |-> 700, innerHeight |-> 800]

MoveIdle ==
    /\ isElectron = FALSE
    /\ win = DesktopWindow
    /\ MoveMounted

InitResolver ==
    /\ modelParams \in ParamLists
    /\ paramIds = InitialIds
    /\ idsResolved = FALSE
    /\ MotionIdle
    /\ RendererIdle
    /\ ExtIdle
    /\ MoveIdle

NextResolver == setupParameterIds

SpecResolver == InitResolver /\ [][NextResolver]_vars

InitMotion == ResolverIdle /\ MotionIdle /\ RendererIdle /\ MoveIdle /\ ExtIdle

NextMotion ==
    \/ startMotion
    \/ loadMotionFileDone
    \/ loadMotionFileFailed
    \/ motionFinished

SpecMotion == InitMotion /\ [][NextMotion]_vars

InitRenderer == ResolverIdle /\ MotionIdle /\ RendererIdle /\ MoveIdle /\ ExtIdle

NextRenderer ==
    \/ loadModel
    \/ loadFromUrlDone
    \/ loadFromUrlFailed
    \/ render
    \/ dispose

SpecRenderer == InitRenderer /\ [][NextRenderer]_vars

NextScale ==
    \/ setScale
    \/ setScaleRange
    \/ setZoomEnabled
    \/ wheel
    \/ dispose

SpecScale == InitRenderer /\ [][NextScale]_vars

NextSetters ==
    \/ setLookAt
    \/ setMovementTilt

SpecSetters == InitRenderer /\ [][NextSetters]_vars

\* a loaded model whose setters have been called, at rest at (0,0)
InitBlend ==
    /\ ResolverIdle
    /\ MotionIdle
    /\ RendererIdle
    /\ MoveIdle
    /\ ScaleIdle
    /\ TravelIdle
    /\ AudioIdle
    /\ WsIdle
    /\ gaze \in BlendConfigs
    /\ currentTilt = [x |-> 0, y |-> 0]
    /\ gazeCall = NoGazeCall
    /\ frames = 0

NextBlend == applyLookAt

\* the render loop calls update(), and with it applyLookAt, every frame
SpecBlend == InitBlend /\ [][NextBlend]_vars /\ WF_vars(applyLookAt)

\* the models that loadFromUrl can have loaded: the Idle group is preloaded,
\* other motions are loaded when first started
LoadedModels ==
    { [LoadedRes EXCEPT !.motions = ms, !.expressions = es, !.textures = ts] :
        ms \in {m \in SUBSET MotionFiles : PreloadedMotions \subseteq m},
        es \in SUBSET ExpressionNames,
        ts \in SUBSET TextureIds }

\* a renderer whose canvas has loaded a model and started the loop
InitRelease ==
    /\ ResolverIdle
    /\ MotionIdle
    /\ MoveIdle
    /\ ExtIdle
    /\ rendererGl = TRUE
    /\ rendererModel = 1
    /\ modelState = [id \in ModelIds |-> IF id = 1 THEN "ready" ELSE "none"]
    /\ isRunning = TRUE
    /\ rafId = "pending"
    /\ drewDisposed = FALSE
    /\ \E r \in LoadedModels : res = [id \in ModelIds |-> IF id = 1 THEN r ELSE NoRes]
    /\ calls = NoCalls

NextRelease ==
    \/ release
    \/ dispose
    \/ setZoomEnabled
    \/ render

SpecRelease == InitRelease /\ [][NextRelease]_vars

NextAudio ==
    \/ addAudioTask
    \/ stopAudioCalled
    \/ clearQueue
    \/ unmountAudio
    \/ setLipSyncEnabled
    \/ canplaythrough
    \/ playRejected
    \/ ended
    \/ audioError
    \/ lateEvent
    \/ updateLipSync

SpecAudio == InitRenderer /\ [][NextAudio]_vars

\* the socket hook with its callers, the socket's events and the timer
NextSocket ==
    \/ connectCalled
    \/ disconnectCalled
    \/ unmountSocket
    \/ socketOpens
    \/ socketCloses
    \/ reconnectTimerFires

SpecSocket == InitRenderer /\ [][NextSocket]_vars

\* a move about to start, for every distance and speed setting
InitTravel ==
    /\ ResolverIdle
    /\ MotionIdle
    /\ RendererIdle
    /\ MoveIdle
    /\ ScaleIdle
    /\ GazeIdle
    /\ AudioIdle
    /\ WsIdle
    /\ travel \in [deltaX : 0..MaxDistance, deltaY : TravelDeltaY, speed : SpeedTenths]

NextTravel == startTransition

SpecTravel == InitTravel /\ [][NextTravel]_vars

\* movementSpeed as the store can hold it: updateCharacterSettings merges the
\* value it is given and the hydration only fills in a missing one, so a
\* persisted 0, a negative number or one above 2.0 reaches the hook as it is
ConfiguredSpeedTenths == {-30, -26, -25, -1, 0, 1, 10, 20, 21, 100}
ConfiguredDeltaX == {-300, -11, -10, 0, 11, 300}

\* a move about to start under any stored speed
InitConfigured ==
    /\ ResolverIdle
    /\ MotionIdle
    /\ RendererIdle
    /\ MoveIdle
    /\ ScaleIdle
    /\ GazeIdle
    /\ AudioIdle
    /\ WsIdle
    /\ travel \in [deltaX : ConfiguredDeltaX, deltaY : TravelDeltaY,
                    speed : ConfiguredSpeedTenths]

SpecConfigured == InitConfigured /\ [][NextTravel]_vars

InitMove ==
    /\ ResolverIdle
    /\ MotionIdle
    /\ RendererIdle
    /\ ExtIdle
    /\ isElectron \in BOOLEAN
    /\ win \in Windows
    /\ MoveMounted

\* the same, started in the desktop window
InitDesktop ==
    /\ ResolverIdle
    /\ MotionIdle
    /\ RendererIdle
    /\ ExtIdle
    /\ isElectron \in BOOLEAN
    /\ win = DesktopWindow
    /\ MoveMounted

\* the scheduler as App wires it: nothing calls the hook's stop() or resume()
SchedulerStep ==
    \/ setMode
    \/ setMovementMode
    \/ setMovementSpeed
    \/ setMovementActiveness
    \/ handleResize
    \/ restTimerFires
    \/ moveTimerFires
    \/ Commit

NextMove == SchedulerStep

SpecMove == InitMove /\ [][NextMove]_vars

\* the hook with a caller of the stop() and resume() it returns, the sliders
\* left alone
NextMoveApi ==
    \/ setMode
    \/ setMovementMode
    \/ handleResize
    \/ restTimerFires
    \/ moveTimerFires
    \/ Commit
    \/ StopCalled
    \/ ResumeCalled

SpecMoveApi == InitDesktop /\ [][NextMoveApi]_vars

\* a session with the pointer on the canvas: mode switches, the scheduler's
\* timers and the drag handlers, the window and the sliders left alone
NextDrag ==
    \/ setMode
    \/ setMovementMode
    \/ restTimerFires
    \/ moveTimerFires
    \/ Commit
    \/ modelLoaded
    \/ handlePointerDown
    \/ handlePointerMove
    \/ handlePointerUp
    \/ handlePointerCancel

SpecDrag == InitDesktop /\ [][NextDrag]_vars

\* the canvas with every writer of the position that a draggable canvas sees:
\* the drag, the settings panel and the migration guard
NextSync ==
    \/ setMode
    \/ Commit
    \/ modelLoaded
    \/ setPanelPosition
    \/ handlePointerDown
    \/ handlePointerMove
    \/ handlePointerUp
    \/ handlePointerCancel

SpecSync == InitDesktop /\ [][NextSync]_vars

\* the scheduler with its callers, up to the unmount of App
NextTeardown ==
    \/ setMode
    \/ setMovementMode
    \/ restTimerFires
    \/ moveTimerFires
    \/ Commit
    \/ StopCalled
    \/ ResumeCalled
    \/ unmount

SpecTeardown == InitDesktop /\ [][NextTeardown]_vars

(***************************************************************************)
(* C1: for the parameter list ParamAngleX, ParamAngleY, ParamEyeBallX,     *)
(* ParamEyeBallY the resolver returns the index of the same-named          *)
(* parameter for angleX, angleY, eyeBallX and eyeBallY, and -1 for angleZ  *)
(* and bodyAngleX.                                                         *)
(***************************************************************************)
ScenarioA == <<ParamAngleX, ParamAngleY, ParamEyeBallX, ParamEyeBallY>>

C1_ScenarioAResolved ==
    (idsResolved /\ modelParams = ScenarioA) =>
        /\ paramIds.angleX = 0
        /\ paramIds.angleY = 1
        /\ paramIds.eyeBallX = 2
        /\ paramIds.eyeBallY = 3
        /\ paramIds.angleZ = Unresolved
        /\ paramIds.bodyAngleX = Unresolved

InSafeRect(pos, b) ==
    LET safe == SafeRect(b)
    IN /\ safe.minX <= pos.x /\ pos.x <= safe.maxX
       /\ safe.minY <= pos.y /\ pos.y <= safe.maxY

SchedulerJustWrote == posWriter = "scheduler" /\ dirty = {"position"}

C3_FreeTargetsInSafeRect ==
    (SchedulerJustWrote /\ settingsRef.movementMode = "free")
        => InSafeRect(position, bounds)

(***************************************************************************)
(* C4: a move the scheduler starts in horizontal mode from position (0,0)  *)
(* writes a direction with y = 0 and x in [-1, 1].                         *)
(***************************************************************************)
MoveStarts == movementEndTimerRef # "pending" /\ movementEndTimerRef' = "pending"

C4_HorizontalFromOrigin ==
    [][(MoveStarts /\ position = Origin /\ settingsRef.movementMode = "horizontal")
          => (movement'.direction.y = 0 /\ Abs(movement'.direction.x) <= DirScale)]_vars

(***************************************************************************)
(* C5: once a move has started, and without a pause, a mode change or a    *)
(* teardown, isMoving stays true and no other move starts until the end    *)
(* timer fires; isMoving becomes false by that timer's callback, which     *)
(* enters scheduleNextMove.                                                *)
(***************************************************************************)
C5_MovingUntilEndTimer ==
    [][(movement.isMoving /\ ~movement'.isMoving /\ dirty \cap {"mode", "ui"} = {})
          => movementEndTimerFires]_vars

(***************************************************************************)
(* C6: a change of movementSpeed or movementActiveness while a move is in  *)
(* transition does not interrupt it: when the change arrives the end timer *)
(* is pending and isMoving is true, and they stay so.                      *)
(***************************************************************************)
C6_SliderKeepsTransition ==
    (moveInFlight /\ dirty = {"speed"})
        => (movementEndTimerRef = "pending" /\ movement.isMoving)

(***************************************************************************)
(* C7: after stop() the scheduler stays paused until resume() is called or *)
(* the movement mode (or the application mode) changes.                    *)
(***************************************************************************)
C7_PausedUntilResume ==
    [][(isPausedRef /\ ~isPausedRef')
          => (ResumeCalled \/ dirty \cap {"mode", "ui"} # {})]_vars

(***************************************************************************)
(* C8: while a pointer drag is in progress the scheduler is suspended: it  *)
(* is paused, none of its timers is pending, and no position it wrote is   *)
(* waiting to be committed.                                                *)
(***************************************************************************)
DragInProgress == dragStateRef # NullDrag

C8_DragExcludesScheduler ==
    DragInProgress =>
        /\ isPausedRef
        /\ timeoutRef \notin {"move", "rest"}
        /\ movementEndTimerRef # "pending"
        /\ ~SchedulerJustWrote

C8_Witness ==
    /\ DragInProgress
    /\ currentPosRef # position
    /\ movementMode = "free"
    /\ movement.transitionDuration > 0

(***************************************************************************)
(* C9: while a drag goes on the persisted position does not change and a   *)
(* pointer-move shows in the live view only; the drag ends either by       *)
(* pointer-up, which persists the drag's final position in one write, or   *)
(* by pointer-cancel, which writes nothing and puts the live view back at  *)
(* the drag's start, or with the canvas being replaced on a mode switch.   *)
(* A further pointer-down restarts the drag from the persisted position    *)
(* and leaves the view alone.                                              *)
(***************************************************************************)
DragStart == [x |-> dragStateRef.startPosX, y |-> dragStateRef.startPosY]

C9_DragCommitDiscipline ==
    [][DragInProgress =>
          /\ DragInProgress' => position' = position /\ posWriter' = posWriter
          /\ (DragInProgress' /\ currentPosRef' # currentPosRef /\ hasModel)
                 => \/ viewPos' = currentPosRef'
                    \/ currentPosRef' = position /\ viewPos' = viewPos
          /\ ~DragInProgress' =>
                \/ /\ position' = currentPosRef
                   /\ posWriter' = "drag"
                   /\ dirty' = {"position"}
                \/ /\ position' = position /\ posWriter' = posWriter
                   /\ currentPosRef' = DragStart
                   /\ hasModel => viewPos' = DragStart
                \/ "ui" \in dirty]_vars

C9_Witness ==
    /\ posWriter = "drag"
    /\ dirty = {"position"}
    /\ position # Origin
    /\ hasModel
    /\ viewPos = position

(***************************************************************************)
(* C10: whatever the interleaving of loadModel calls, every model instance *)
(* whose load has completed is the renderer's current model or has been    *)
(* released: none is left unreleased by being overwritten.                 *)
(***************************************************************************)
C10_ExclusiveOwnership ==
    \A id \in ModelIds : modelState[id] = "ready" => rendererModel = id


\* C11: a model that was loaded is released only by dispose or in the step
\* in which another model's load has succeeded and that model is current;
\* a load that is still pending or that fails leaves the previous model
\* current and unreleased
C11_PreviousSurvivesFailedLoad ==
    [][\A m \in ModelIds :
          (modelState[m] = "ready" /\ modelState'[m] = "released")
              => \/ ~rendererGl'
                 \/ \E n \in ModelIds \ {m} :
                        modelState'[n] = "ready" /\ rendererModel' = n]_vars

\* C12: once dispose has returned the render loop is stopped, no
\* animation-frame callback is pending, no update/draw has run since, and
\* the renderer references no model
C12_DisposalIsFinal ==
    ~rendererGl => /\ ~isRunning
                   /\ rafId # "pending"
                   /\ ~drewDisposed
                   /\ rendererModel = NoModel


\* C13: once App is unmounted no reaction-delay, rest or transition-end
\* timer of the scheduler is pending, and from then on no step writes
\* MovementState or the character position
C13_TeardownClearsTimers ==
    [][/\ ~mounted' => /\ timeoutRef' \notin {"move", "rest"}
                       /\ movementEndTimerRef' # "pending"
       /\ ~mounted => /\ movement' = movement
                      /\ position' = position]_vars

\* App was unmounted while the scheduler was resting: the rest timer was
\* cleared by the unmount effect
C13_Witness ==
    ~mounted /\ isRestingRef /\ timeoutRef = "stale"


Saturated(lo, hi, x) == IF x < lo THEN lo ELSE IF x > hi THEN hi ELSE x

\* C15: after setLookAt the stored lookAtX/Y, and after setMovementTilt the
\* stored movementTiltX/Y, lie in [-1, 1] and movementIntensity in [0, 1]:
\* an argument inside its range is stored unchanged and one outside it is
\* stored as the nearest end of the range
C15_SettersClamp ==
    /\ gaze.lookAtX \in -TiltScale..TiltScale
    /\ gaze.lookAtY \in -TiltScale..TiltScale
    /\ gaze.movementTiltX \in -TiltScale..TiltScale
    /\ gaze.movementTiltY \in -TiltScale..TiltScale
    /\ gaze.movementIntensity \in 0..TiltScale
    /\ gazeCall.fn = "setLookAt" =>
          /\ gaze.lookAtX = Saturated(-TiltScale, TiltScale, gazeCall.x)
          /\ gaze.lookAtY = Saturated(-TiltScale, TiltScale, gazeCall.y)
    /\ gazeCall.fn = "setMovementTilt" =>
          /\ gaze.movementTiltX = Saturated(-TiltScale, TiltScale, gazeCall.x)
          /\ gaze.movementTiltY = Saturated(-TiltScale, TiltScale, gazeCall.y)
          /\ gaze.movementIntensity = Saturated(0, TiltScale, gazeCall.intensity)

\* setLookAt(5, -5) has stored (1, -1), after a setMovementTilt whose
\* intensity was below 0
C15_Witness ==
    /\ gazeCall = [fn |-> "setLookAt", x |-> 50000, y |-> -50000]
    /\ gaze.lookAtX = TiltScale
    /\ gaze.lookAtY = -TiltScale
    /\ gaze.movementTiltX = -TiltScale
    /\ gaze.movementIntensity = 0
    /\ gaze.isMoving


\* the pointer target is fixed at (1,1) and the character is not moving
PointerAtOneOne ==
    ~gaze.isMoving /\ gaze.lookAtX = TiltScale /\ gaze.lookAtY = TiltScale

\* the smallest distance whose 0.03 is a whole ten-thousandth
VisibleGap == (100 \div 3) + 1

\* a blend step from this far away is at least one ten-thousandth
StepVisible(current) == TiltScale - current >= VisibleGap

\* both axes are so close to 1 that a step rounds to nothing
BlendSettled ==
    /\ TiltScale - currentTilt.x < VisibleGap
    /\ TiltScale - currentTilt.y < VisibleGap

\* C16 as the code has it: with the pointer target fixed at (1,1) and
\* isMoving false, no application of the blend moves an axis away from 1 or
\* past 1, every application from far enough for its step not to round to
\* nothing moves the axis strictly closer, and from (0,0) both axes come
\* within that distance of 1
C16_BlendMonotone ==
    /\ [][(PointerAtOneOne /\ frames' = frames + 1) =>
             /\ currentTilt.x <= currentTilt'.x /\ currentTilt'.x <= TiltScale
             /\ currentTilt.y <= currentTilt'.y /\ currentTilt'.y <= TiltScale
             /\ StepVisible(currentTilt.x) => currentTilt.x < currentTilt'.x
             /\ StepVisible(currentTilt.y) => currentTilt.y < currentTilt'.y]_vars
    /\ PointerAtOneOne ~> BlendSettled

\* two applications from (0,0) towards (1,1): 0.03, then 0.0591
C16_Witness ==
    PointerAtOneOne /\ frames = 2 /\ currentTilt = [x |-> 591, y |-> 591]

\* C16 as stated: every application moves each axis strictly closer to 1
\* and never past it
C16_StrictlyCloser ==
    [][(PointerAtOneOne /\ frames' = frames + 1) =>
          /\ currentTilt.x < currentTilt'.x /\ currentTilt'.x <= TiltScale
          /\ currentTilt.y < currentTilt'.y /\ currentTilt'.y <= TiltScale]_vars


\* C17: for every travel distance and every speed from 0.1 to 2.0 the
\* transition duration computed lies between 1.5 and 10 seconds, and so
\* does the one written to MovementState with isMoving
C17_DurationBounds ==
    /\ TransitionMs(Distance(travel.deltaX, travel.deltaY), travel.speed) \in 1500..10000
    /\ movement.isMoving => movement.transitionDuration \in 1500..10000

\* 300px at speed 1.0 take 5 seconds, between the two bounds
C17_Witness ==
    /\ travel = [deltaX |-> 300, deltaY |-> 0, speed |-> 10]
    /\ movement.isMoving
    /\ movement.transitionDuration = 5000


\* C18: release() called again on a CubismModel, and dispose() called again
\* on a CubismRenderer, free nothing a second time and change nothing: no
\* motion, expression, texture or model setting is ever freed twice, and
\* the repeated call leaves every field as the first call left it
C18_IdempotentDisposal ==
    /\ [](\A id \in ModelIds : \A r \in Resources : res[id].freed[r] <= 1)
    /\ [][\A id \in ModelIds :
            (calls.release[id] >= 1 /\ calls'.release[id] = calls.release[id] + 1)
                => /\ res'[id] = res[id]
                   /\ modelState'[id] = modelState[id]]_vars
    /\ [][(calls.dispose >= 1 /\ calls'.dispose = calls.dispose + 1)
            => UNCHANGED <<rendererGl, rendererModel, modelState, isRunning, rafId,
                           res, wheelHandler, zoomEnabled, scale>>]_vars

\* a model holding every kind of resource after two release() calls and two
\* dispose() calls: each resource has been freed once
C18_Witness ==
    /\ calls.release[1] >= 2
    /\ calls.dispose = 2
    /\ \A r \in Resources : res[1].freed[r] = 1
    /\ ~rendererGl


\* C19: whenever no audio task is playing (isPlayingRef is false, after a
\* clip has ended or failed or audio was stopped or the queue cleared) the
\* lip-sync value is 0, and it is non-zero only while the current element
\* is actually playing
C19_LipSyncDecays ==
    /\ ~isPlayingRef => lipSyncValue = 0
    /\ lipSyncValue # 0 => /\ audioRef # NoClip
                           /\ clips[audioRef].state = "playing"

\* a clip drove the value to 1.0 and has ended since: the value is back at 0
C19_Witness ==
    /\ ~isPlayingRef
    /\ lipCall.value = LipUnit
    /\ \E id \in ClipIds : clips[id].state = "ended"
    /\ lipSyncValue = 0

\* C20: the index updateLipSync looks up is floor(progress * len), capped at
\* len - 1, and so within [0, len - 1]; the value pushed is the envelope's
\* entry there, brought into [0, 1]; the envelope [0, 0.5, 1.0, 0.5, 0] at
\* 50% gives index 2 and the value 1.0
C20_EnvelopeIndex ==
    lipCall # NoLipCall =>
        /\ lipCall.index \in 0..(lipCall.len - 1)
        /\ lipCall.index = Min((lipCall.progress * lipCall.len) \div 100, lipCall.len - 1)
        /\ \E e \in Envelopes :
              /\ Len(e) = lipCall.len
              /\ lipCall.value = Min(LipUnit, Max(0, e[lipCall.index + 1]))
        /\ (lipCall.len = 5 /\ lipCall.progress = 50)
              => (lipCall.index = 2 /\ lipCall.value = LipUnit)

\* the envelope [0, 0.5, 1.0, 0.5, 0] sampled at 50%, the value still pushed
C20_Witness ==
    /\ lipCall = [progress |-> 50, len |-> 5, index |-> 2, value |-> LipUnit]
    /\ currentVolumesRef = <<0, 5, 10, 5, 0>>
    /\ lipSyncValue = LipUnit
    /\ isPlayingRef


\* a timer of the scheduler is pending
TimeoutPending == timeoutRef \in {"move", "rest"}
ArmedNow == [by |-> "scheduleNextMove", settings |-> StoreSettings]

\* C21: the commit of a change of movementMode from one enabled mode to
\* another, in companion mode, leaves exactly one timer pending, the
\* timeoutRef timer, armed by scheduleNextMove (the rest-or-move decision)
\* under the new settings, with no transition left; and while the scheduler
\* is active no pending timer was armed under another mode than the current
C21_ModeChangeRestarts ==
    /\ [][(/\ dirty = {"mode"} /\ dirty' = {}
           /\ uiMode = "companion"
           /\ settingsRef.movementMode # "disabled"
           /\ movementMode # "disabled")
          => /\ timeoutRef' \in {"move", "rest"}
             /\ armed' = ArmedNow'
             /\ isRestingRef' = (timeoutRef' = "rest")
             /\ movementEndTimerRef' # "pending"
             /\ ~isPausedRef'
             /\ ~movement'.isMoving
             /\ settingsRef' = StoreSettings']_vars
    /\ []((Settled /\ SchedulerActive /\ TimeoutPending)
            => armed.settings.movementMode = movementMode)

\* after a change from 'free' to 'vertical' the scheduler rests under the
\* new mode, before any move
C21_Witness ==
    /\ Settled /\ uiMode = "companion" /\ movementMode = "vertical"
    /\ posWriter = "init"
    /\ timeoutRef = "rest" /\ isRestingRef
    /\ armed = ArmedNow
    /\ movementEndTimerRef = "null"


\* C22: whenever the scheduler is not supposed to run (movementMode is
\* 'disabled', or the mode is not companion, or enabled is false) and React
\* has committed, no scheduler timer is pending and isMoving is false, and
\* no step starts a move or writes the position for the scheduler
C22_QuiescentWhenInactive ==
    /\ []((Settled /\ ~SchedulerActive)
            => /\ ~TimeoutPending
               /\ movementEndTimerRef # "pending"
               /\ ~movement.isMoving)
    /\ [][(Settled /\ ~SchedulerActive)
            => /\ ~(movement'.isMoving /\ ~movement.isMoving)
               /\ (position' # position => posWriter' # "scheduler")]_vars


\* C23: the commit of a change of movementSpeed or movementActiveness while
\* the scheduler rests (rest timer pending, no transition) leaves a timer
\* that scheduleNextMove armed in that commit under the new settings: the
\* old rest timer is gone and the rest-or-move decision has been taken again
C23_SliderRerollsRest ==
    [][(/\ dirty = {"speed"} /\ dirty' = {}
        /\ SchedulerActive
        /\ ~isPausedRef
        /\ isRestingRef /\ timeoutRef = "rest"
        /\ movementEndTimerRef # "pending")
       => /\ armed.settings # StoreSettings
          /\ armed' = ArmedNow'
          /\ settingsRef' = StoreSettings'
          /\ timeoutRef' \in {"move", "rest"}
          /\ isRestingRef' = (timeoutRef' = "rest")
          /\ movementEndTimerRef' # "pending"]_vars

\* the speed was raised during a rest and the new roll chose to move
C23_Witness ==
    /\ Settled /\ SchedulerActive
    /\ movementSpeed = 20 /\ movementActiveness = 5
    /\ posWriter = "init"
    /\ armed = ArmedNow
    /\ timeoutRef = "move" /\ ~isRestingRef


\* C24: a CubismModel whose load has failed holds no texture that the load
\* had uploaded to the GPU: every one of them has been deleted
C24_AbortedLoadReleased ==
    \A id \in ModelIds : modelState[id] = "failed" => res[id].textures = {}


\* C25: whenever a model is loaded in a canvas that can be dragged, no drag is
\* in progress and the persisted position is not a legacy pixel value, the
\* centre of the live model is the persisted position
C25_PositionSynchronized ==
    (Settled /\ hasModel /\ enableDrag /\ ~DragInProgress /\ ~isLegacyPixelValue(position))
        => viewPos = position


\* C26: the MovementState in the store has both direction components within
\* [-1, 1] (hundredths) and its intensity within [0, 1] (hundredths), whatever
\* speed is stored, a 0, a negative or one above 2.0 included
C26_MovementStateRange ==
    /\ movement.direction.x \in -DirScale..DirScale
    /\ movement.direction.y \in -DirScale..DirScale
    /\ movement.intensity \in 0..100


\* C27: whenever the scheduler is enabled (companion mode, a movement mode
\* other than disabled, not paused) one of its timers is pending, and from
\* there on a timer callback makes another move attempt
EndTimerPending == movementEndTimerRef = "pending"

C27_NeverStalls ==
    (Settled /\ SchedulerActive /\ ~isPausedRef) => (TimeoutPending \/ EndTimerPending)


\* C28: a position the scheduler has persisted is not taken for a legacy
\* pixel value on a later mode switch: the migration guard of the drag
\* controller never replaces it by the origin
C28_SchedulerPositionSurvives ==
    [][posWriter = "scheduler"
          => ~(posWriter' = "guard" /\ position' = Origin /\ position # Origin)]_vars


\* C30: audio tasks play one at a time: when addAudioTask, or the handler of
\* an event of an earlier, already replaced element, starts a task (playAudio
\* creates its element), no other element is loading or playing
ClipActive(c) == c.state \in {"loading", "playing", "blocked"}

StartsOnTop ==
    \E id \in ClipIds, other \in ClipIds :
        /\ id # other
        /\ clips[id].state = "none"
        /\ clips'[id].state # "none"
        /\ ClipActive(clips[other])

C30_OneAtATime == [][(addAudioTask \/ lateEvent) => ~StartsOnTop]_vars


\* C29: after disconnect() (the unmount included) no new WebSocket is created
\* until connect() is called again: the reconnect timer is cancelled, and the
\* close event of the socket being closed arms no other
SocketsCreated == Cardinality({id \in SocketIds : sockets[id] # "none"})

C29_NoReconnectAfterDisconnect ==
    [][(wsDisconnected /\ wsDisconnected') => SocketsCreated' = SocketsCreated]_vars

====
